---- MODULE Spec2Model ----
(***************************************************************************)
(* TessieClient (tessie-mcp): the request cache with jittered TTL and      *)
(* size-bound eviction, the in-flight request coalescer, VIN-scoped        *)
(* invalidation after commands and the retry loop around every HTTP call.  *)
(*                                                                         *)
(* One step of the model is one run-to-completion block of the JavaScript  *)
(* code: the code between two awaits.  Every state of the model is         *)
(* therefore a suspension point, and every suspension point is a state.    *)
(*                                                                         *)
(* Strings are sequences of atoms.  An atom is either the separator ":"    *)
(* or a piece of text that holds no ":"; join and split work on atoms as   *)
(* Array.prototype.join and String.prototype.split work on characters.     *)
(*                                                                         *)
(* Vocabulary used by the properties below:                                *)
(*   fetch          one invocation of the fetcher passed to cached(): one  *)
(*                  withRetry run, i.e. one HTTP GET plus its retries;     *)
(*   read           one invocation of a read method (one cached() call);   *)
(*   hit/join/fetch the three ways cached() serves a read: from the store, *)
(*                  from a promise of the in-flight map, or by starting a  *)
(*                  fetch.                                                 *)
(***************************************************************************)
EXTENDS Integers, Sequences, FiniteSets, TLC

VARIABLES
    now,        \* Date.now(), in ms
    cache,      \* this.cache: the Map, as its entries in insertion order
    inFlight,   \* this.inFlight: the Map key -> promise, as a set of <<key, promise>>
    fetches,    \* the promises created by cached() that have a reaction left to run
    started,    \* per key: how many promises cached() has created for it
    waiting,    \* reads that await a promise of cached()
    cmds,       \* sendCommand invocations: where each one stands
    maxCacheSize, \* this.maxCacheSize, set by the constructor
    postOk,     \* per VIN: how many commands the upstream has completed
    inv,        \* per VIN: how many times invalidateVin(vin) has run
    nreads,     \* reads issued so far
    nfails,     \* HTTP calls that have failed so far
    ev,         \* what the latest step did (observation only)
    call        \* the get_vehicle_current_state call and its ErrorHandler.withRetry run

vars == <<now, cache, inFlight, fetches, started, waiting, cmds, maxCacheSize, postOk, inv, nreads, nfails, ev, call>>

-----------------------------------------------------------------------------
(* Bounds of the model *)

\* Spec: every operation, default cache size, coarse clock
MaxReads == 2
MaxFails == 1
MaxTicks == 1
TickMs == 16600

\* SpecCache: reads, stores, expiry and eviction only, small cache sizes, finer clock
MaxCacheSize == 2
CacheReads == 3
CacheTicks == 2
CacheTickMs == 8300

\* SpecRetry: reads whose HTTP calls fail in every way, clock in steps of the base delay
RetryReads == 2
RetryFails == 3
RetryTicks == 3
RetryTickMs == 500

\* SpecDrives: getDrives and listVehicles with parameter objects and response bodies
DriveReads == 2
DriveFails == 1

\* SpecTools: the manage_vehicle_command tool in front of sendCommand
ToolFails == 1
ToolTicks == 1
ToolTickMs == 500

\* SpecHandler: get_vehicle_current_state over ErrorHandler.withRetry
HandlerTicks == 5
HandlerTickMs == 1500

\* SpecMeta: the objects of a logged value, and the depth of the call stack
\* (larger than the longest path without a cycle, so that only an unbounded
\* recursion exceeds it)
MetaNodes == 2
MaxStack == 6

\* SpecCommands: commands, several for one vehicle, one of them failing, next
\* to one read
MaxCommands == 2
CommandFails == 1
CommandReads == 1
CommandTicks == 1
CommandTickMs == 1000

\* SpecLive: reads and a command under fairness; the clock runs while a backoff
\* timer is pending
LiveReads == 1
LiveFails == 3
LiveTickMs == 500

(* Program constants *)

DEFAULT_MAX_CACHE_SIZE == 200
VEHICLE_LIST_TTL_MS == 30000
VEHICLE_STATE_TTL_MS == 15000
DRIVES_TTL_MS == 30000
HISTORICAL_STATE_TTL_MS == 30000
MAX_DRIVE_LIMIT == 100
maxRetries == 3
baseDelayMs == 500

\* CACHE_TTL_JITTER_RATIO = 0.1, as the fraction JitterNum / JitterDen
JitterNum == 1
JitterDen == 10

-----------------------------------------------------------------------------
(* Strings *)

Sep == ":"

V1 == <<"V", "1">>
V12 == <<"V", "1", "2">>
Vins == {V1, V12}

\* the vehicles that are sent commands
Commanded == {V1}

RECURSIVE JoinParts(_)
\* parts.join(":")
JoinParts(parts) ==
    IF Len(parts) = 0 THEN <<>>
    ELSE IF Len(parts) = 1 THEN parts[1]
    ELSE parts[1] \o <<Sep>> \o JoinParts(Tail(parts))

RECURSIVE SplitFrom(_, _)
\* the segments of s after the segment cur has been read so far
SplitFrom(s, cur) ==
    IF Len(s) = 0 THEN <<cur>>
    ELSE IF Head(s) = Sep THEN <<cur>> \o SplitFrom(Tail(s), <<>>)
    ELSE SplitFrom(Tail(s), Append(cur, Head(s)))

\* key.split(":")
Split(s) == SplitFrom(s, <<>>)

\* cacheKey(kind, ...parts)
cacheKey(kind, parts) == JoinParts(<<kind>> \o parts)

-----------------------------------------------------------------------------
(* Parameter objects and their serialization *)

\* JavaScript values: a number, a string (a sequence of atoms), undefined
Num(n) == [t |-> "number", n |-> n, s |-> <<>>]
Str(s) == [t |-> "string", n |-> 0, s |-> s]
Undefined == [t |-> "undefined", n |-> 0, s |-> <<>>]

\* An object is the sequence of its own properties [k, v] in insertion order,
\* no key twice.  options[k], undefined when the object has no such property:
Prop(obj, k) ==
    IF \E i \in 1..Len(obj) : obj[i].k = k
    THEN obj[CHOOSE i \in 1..Len(obj) : obj[i].k = k].v
    ELSE Undefined

\* the property names that occur, in the order of a.localeCompare(b)
KeyOrder == <<"end", "interval", "limit", "start">>

KeyRank(k) == CHOOSE i \in 1..Len(KeyOrder) : KeyOrder[i] = k

\* entries left as Object.entries gave them
InsertionOrder(es) == es

\* entries.sort(([a], [b]) => a.localeCompare(b))
SortedEntries(es) ==
    LET place(i) == 1 + Cardinality({ j \in 1..Len(es) : KeyRank(es[j].k) < KeyRank(es[i].k) })
    IN  [n \in 1..Len(es) |-> es[CHOOSE i \in 1..Len(es) : place(i) = n]]

RECURSIVE JsonEscape(_)
\* the characters of a string inside a JSON string: quote and backslash escaped
JsonEscape(s) ==
    IF Len(s) = 0 THEN <<>>
    ELSE (IF Head(s) \in {"\"", "\\"} THEN <<"\\", Head(s)>> ELSE <<Head(s)>>)
         \o JsonEscape(Tail(s))

\* JSON.stringify of a number or a string
JsonValue(v) ==
    IF v.t = "number" THEN <<ToString(v.n)>>
    ELSE <<"\"">> \o JsonEscape(v.s) \o <<"\"">>

\* a member written without its name
JsonMemberValueOnly(e) == JsonValue(e.v)

\* one member of a JSON object: "name":value
JsonMember(e) == <<"\"", e.k, "\"", ":">> \o JsonValue(e.v)

RECURSIVE JsonMembers(_)
\* the members joined by ","; JSON.stringify leaves out undefined properties
JsonMembers(es) ==
    IF Len(es) = 0 THEN <<>>
    ELSE IF Head(es).v = Undefined THEN JsonMembers(Tail(es))
    ELSE LET rest == JsonMembers(Tail(es))
         IN  JsonMember(Head(es)) \o (IF Len(rest) = 0 THEN <<>> ELSE <<",">> \o rest)

\* JSON.stringify(object)
JsonStringify(es) == <<"{">> \o JsonMembers(es) \o <<"}">>

\* serializeParams(params) for a params object (the read methods of the model
\* always pass one, of numbers, strings and undefined, which JSON.stringify
\* never refuses)
serializeParams(params) == JsonStringify(SortedEntries(params))

\* Math.min(options.limit, MAX_DRIVE_LIMIT) alone
BoundedAbove(limit) == IF limit < MAX_DRIVE_LIMIT THEN limit ELSE MAX_DRIVE_LIMIT

\* Math.max(1, Math.min(options.limit, MAX_DRIVE_LIMIT))
Bounded(limit) ==
    LET least == IF limit < MAX_DRIVE_LIMIT THEN limit ELSE MAX_DRIVE_LIMIT
    IN  IF least > 1 THEN least ELSE 1

\* if (options.start): a string that is not empty
Truthy(v) == v.t = "string" /\ Len(v.s) > 0

\* the params object getDrives builds for the GET, as its set of <<name, text>>
getDrivesParams(options) ==
    { <<k, Prop(options, k).s>> : k \in { n \in {"start", "end"} : Truthy(Prop(options, n)) } }
    \cup (IF Prop(options, "limit") # Undefined
          THEN { <<"limit", <<ToString(Bounded(Prop(options, "limit").n))>> >> }
          ELSE {})

-----------------------------------------------------------------------------
(* The read methods of the client, as requests *)

Requests ==
    { [op |-> "listVehicles", vin |-> <<>>],
      [op |-> "getVehicleState", vin |-> V1],
      [op |-> "getVehicleState", vin |-> V12] }

\* property values of the options objects
DayA == <<"a">>
DayQ == <<"q", "\"", ":">>

\* the options objects passed to getDrives: limits below, inside and above the
\* range, the same properties in both insertion orders, properties left
\* undefined as the tool handler leaves them
DriveOptions ==
    { <<[k |-> "limit", v |-> Num(-5)]>>,
      <<[k |-> "limit", v |-> Num(0)]>>,
      <<[k |-> "limit", v |-> Num(100)]>>,
      <<[k |-> "limit", v |-> Num(1000)]>>,
      <<[k |-> "start", v |-> Str(DayA)]>>,
      <<[k |-> "end", v |-> Str(DayA)]>>,
      <<[k |-> "start", v |-> Str(DayQ)], [k |-> "limit", v |-> Num(100)]>>,
      <<[k |-> "limit", v |-> Num(100)], [k |-> "start", v |-> Str(DayQ)]>>,
      <<[k |-> "start", v |-> Undefined], [k |-> "end", v |-> Undefined],
        [k |-> "limit", v |-> Num(100)]>> }

\* the options objects passed to getHistoricalStates
HistoryOptions ==
    { <<[k |-> "start", v |-> Str(DayA)]>>,
      <<[k |-> "start", v |-> Str(DayA)], [k |-> "interval", v |-> Str(DayA)]>>,
      <<[k |-> "interval", v |-> Str(DayA)], [k |-> "start", v |-> Str(DayA)]>> }

DriveRequests ==
    { [op |-> "listVehicles", vin |-> <<>>] }
    \cup { [op |-> "getDrives", vin |-> V1, options |-> o] : o \in DriveOptions }
    \cup { [op |-> "getDrives", vin |-> V12, options |-> <<[k |-> "limit", v |-> Num(100)]>>] }
    \cup { [op |-> "getHistoricalStates", vin |-> V1, options |-> o] : o \in HistoryOptions }

\* the key each read method builds
KeyOf(req) ==
    CASE req.op = "listVehicles" -> cacheKey(<<"vehicles">>, << <<"all">> >>)
      [] req.op = "getVehicleState" -> cacheKey(<<"state">>, <<req.vin>>)
      [] req.op = "getHistoricalStates" ->
            cacheKey(<<"history">>, <<req.vin, serializeParams(req.options)>>)
      [] req.op = "getDrives" ->
            cacheKey(<<"drives">>, <<req.vin, serializeParams(req.options)>>)

\* the TTL each read method passes to cached()
TtlOf(req) ==
    CASE req.op = "listVehicles" -> VEHICLE_LIST_TTL_MS
      [] req.op = "getVehicleState" -> VEHICLE_STATE_TTL_MS
      [] req.op = "getHistoricalStates" -> HISTORICAL_STATE_TTL_MS
      [] req.op = "getDrives" -> DRIVES_TTL_MS

\* the params object each read method hands to client.get
ParamsOf(req) ==
    CASE req.op = "getDrives" -> getDrivesParams(req.options)
      [] req.op = "getHistoricalStates" ->
            { <<k, Prop(req.options, k).s>> :
                k \in { n \in {"start", "end", "interval"} : Truthy(Prop(req.options, n)) } }
      [] OTHER -> {}

Keys == { KeyOf(r) : r \in Requests }

DriveKeys == { KeyOf(r) : r \in DriveRequests }

-----------------------------------------------------------------------------
(* The cache Map *)

\* the keys of a Map
MapKeys(m) == { m[i].key : i \in 1..Len(m) }

MapHas(m, key) == \E i \in 1..Len(m) : m[i].key = key

MapGet(m, key) == m[CHOOSE i \in 1..Len(m) : m[i].key = key]

\* Map.set: an existing key keeps its place, a new key goes last
MapSet(m, e) ==
    IF MapHas(m, e.key)
    THEN [i \in 1..Len(m) |-> IF m[i].key = e.key THEN e ELSE m[i]]
    ELSE Append(m, e)

\* m after Map.delete of every key outside keep
RECURSIVE MapFilter(_, _)
MapFilter(m, keep) ==
    IF Len(m) = 0 THEN <<>>
    ELSE IF Head(m).key \in keep THEN <<Head(m)>> \o MapFilter(Tail(m), keep)
    ELSE MapFilter(Tail(m), keep)

\* the comparison of line 313 turned around
LiveInverted(m, key, t) == MapHas(m, key) /\ MapGet(m, key).expires < t

\* line 313: cached && cached.expires > now
Live(m, key, t) == MapHas(m, key) /\ MapGet(m, key).expires > t

\* the sort turned around: (a, b) => b.touched - a.touched
SortRankNewestFirst(m, i) ==
    Cardinality({ j \in 1..Len(m) :
        \/ m[j].touched > m[i].touched
        \/ (m[j].touched = m[i].touched /\ j < i) })

\* the place of entry i in Array.from(entries).sort((a, b) => a.touched - b.touched):
\* the sort is stable, equal touched keep the Map's order
SortRank(m, i) ==
    Cardinality({ j \in 1..Len(m) :
        \/ m[j].touched < m[i].touched
        \/ (m[j].touched = m[i].touched /\ j < i) })

\* pruneCache() without its first loop
KeepExpired(m, t) == m

\* pruneCache(), first loop: drop expired
DropExpired(m, t) ==
    MapFilter(m, { m[i].key : i \in { j \in 1..Len(m) : ~(m[j].expires <= t) } })

\* an eviction that stops one entry early
EvictOldestButOne(m, max) ==
    IF Len(m) <= max + 1 THEN m
    ELSE LET over == Len(m) - max - 1
         IN  MapFilter(m, { m[i].key : i \in { j \in 1..Len(m) : ~(SortRank(m, j) < over) } })

\* pruneCache(), second part: LRU eviction if still oversized
EvictOldest(m, max) ==
    IF Len(m) <= max THEN m
    ELSE LET over == Len(m) - max
         IN  MapFilter(m, { m[i].key : i \in { j \in 1..Len(m) : ~(SortRank(m, j) < over) } })

pruneCache(m, t, max) == EvictOldest(DropExpired(m, t), max)

\* a loop that deletes the roster only
InvalidatedRosterOnly(key, vin) == Split(key)[1] = <<"vehicles">>

\* a loop that matches the VIN as a prefix of the second segment
InvalidatedByPrefix(key, vin) ==
    LET segments == Split(key)
    IN  \/ segments[1] = <<"vehicles">>
        \/ /\ Len(segments) >= 2
           /\ Len(segments[2]) >= Len(vin)
           /\ SubSeq(segments[2], 1, Len(vin)) = vin

\* invalidateVin(vin): which keys the loop deletes
Invalidated(key, vin) ==
    LET segments == Split(key)
    IN  \/ segments[1] = <<"vehicles">>
        \/ (Len(segments) >= 2 /\ segments[2] = vin)

\* an invalidateVin that deletes nothing
invalidateNothing(m, vin) == m

invalidateVin(m, vin) ==
    MapFilter(m, { k \in MapKeys(m) : ~Invalidated(k, vin) })

\* the values of Math.random() the model draws, in thousandths: its least value 0
\* and 0.999 (it is never 1)
Randoms == {0, 999}

\* a jitter that only lengthens: 1 + Math.random() * 2 * CACHE_TTL_JITTER_RATIO
JitteredTtlOneSided(ttlMs, r) ==
    LET den == 1000 * JitterDen
        num == den + 2 * r * JitterNum
        floor == (ttlMs * num) \div den
    IN  IF floor > 0 THEN floor ELSE 0

\* Math.max(0, Math.floor(ttlMs * jitter)) with
\* jitter = 1 + (Math.random() * 2 - 1) * CACHE_TTL_JITTER_RATIO and Math.random() = r / 1000
JitteredTtl(ttlMs, r) ==
    LET den == 1000 * JitterDen
        num == den + (2 * r - 1000) * JitterNum
        floor == (ttlMs * num) \div den
    IN  IF floor > 0 THEN floor ELSE 0

\* a retry decision that takes every 4xx and 5xx for retriable
RetriableFrom400(status) == status # 0 /\ status >= 400

\* the retry decision of withRetry for a failure with this status (0: no response status)
Retriable(status) == status = 429 \/ (status # 0 /\ status >= 500)

RECURSIVE Pow2(_)
Pow2(n) == IF n <= 0 THEN 1 ELSE 2 * Pow2(n - 1)

\* a delay that doubles one attempt early: baseDelayMs * Math.pow(2, attempt)
BackoffDelayFromDouble(attempt) == baseDelayMs * Pow2(attempt)

\* baseDelayMs * Math.pow(2, attempt - 1)
BackoffDelay(attempt) == baseDelayMs * Pow2(attempt - 1)

\* toMcpError(error, context), as far as callers decide on it: the status and the
\* retriable flag.  axios: axios.isAxiosError(error); status 0: error.response is
\* undefined (for an Error that is not an axios error there is no status at all)
toMcpError(axios, status) ==
    [status |-> IF axios THEN status ELSE 0,
     retriable |-> IF axios
                   THEN (IF status # 0 THEN status >= 500 \/ status = 429 ELSE TRUE)
                   ELSE FALSE]

-----------------------------------------------------------------------------
(* Observation: which commands a request's data depends on *)

\* a command on vin changes what this request reads: the roster, and the vehicle's own data
Scoped(req, vin) == req.op = "listVehicles" \/ req.vin = vin

RECURSIVE SumOver(_, _)
SumOver(f, S) ==
    IF S = {} THEN 0
    ELSE LET x == CHOOSE y \in S : TRUE IN f[x] + SumOver(f, S \ {x})

\* how many commands that touch req's data the upstream has completed
Completed(req) == SumOver(postOk, { v \in Vins : Scoped(req, v) })

\* how many invalidations that cover req have run
InvalidationsRun(req) == SumOver(inv, { v \in Vins : Scoped(req, v) })

-----------------------------------------------------------------------------
(* State *)

FailStatuses == {404, 500}

\* the failures SpecRetry draws: no response at all (0), 401, 403, 404, 429, 503
RetryStatuses == {0, 401, 403, 404, 429, 503}

\* the latest step was none of those the properties observe
NoEvent == [type |-> "none"]

\* no get_vehicle_current_state call is under way
NoCall ==
    [phase |-> "idle", attempt |-> 0, config |-> [maxRetries |-> 0], raw |-> [kind |-> "none"],
     lastError |-> [type |-> "none"], due |-> 0, calls |-> 0, outcome |-> "none",
     enhancedError |-> [type |-> "none"]]

\* the client after its constructor has run with options.maxCacheSize in sizes;
\* keys: the keys the specification's reads can build
StartWith(keys, sizes) ==
    /\ now = 0
    /\ cache = <<>>
    /\ inFlight = {}
    /\ fetches = {}
    /\ started = [k \in keys |-> 0]
    /\ waiting = {}
    /\ cmds = <<>>
    /\ maxCacheSize \in sizes
    /\ postOk = [v \in Vins |-> 0]
    /\ inv = [v \in Vins |-> 0]
    /\ nreads = 0
    /\ nfails = 0
    /\ ev = NoEvent
    /\ call = NoCall

Start(sizes) == StartWith(Keys, sizes)

\* maxCacheSize left to its default
Init == Start({DEFAULT_MAX_CACHE_SIZE})

\* the same client, read through getDrives, getHistoricalStates and listVehicles
InitDrives == StartWith(DriveKeys, {DEFAULT_MAX_CACHE_SIZE})

\* maxCacheSize given, small enough for eviction to happen
InitCache == Start(0..MaxCacheSize)

\* a promise of cached() has settled and its creator's finally has not run yet,
\* or a command's POST has returned and sendCommand has not resumed yet
MicrotaskPending ==
    \/ \E f \in fetches : f.phase \in {"resolved", "rejected"}
    \/ \E c \in 1..Len(cmds) : cmds[c].phase = "ok"

-----------------------------------------------------------------------------
(* cached(key, ttlMs, fetcher), lines 311-319 and 329: the part that runs  *)
(* before the first await.  The fetcher runs up to its first await too, so *)
(* the first HTTP GET is issued in the same step.                          *)
(* A promise is named <<key, n>>: the n-th promise created for the key.    *)

\* a cached() that never records its promise in the in-flight map
PendingNone(key) == <<>>

\* this.inFlight.get(key): the promise the in-flight map holds for key (<<>>: none)
Pending(key) ==
    IF \E e \in inFlight : e[1] = key
    THEN (CHOOSE e \in inFlight : e[1] = key)[2]
    ELSE <<>>

\* a cached() that never looks at the in-flight map
RouteNoJoin(key) == IF Live(cache, key, now) THEN "hit" ELSE "fetch"

\* which way cached() goes for key, lines 312-319
Route(key) ==
    IF Live(cache, key, now) THEN "hit"
    ELSE IF Pending(key) # <<>> THEN "join"
    ELSE "fetch"

\* a cached() that marks the entry it returns as used: touched = Date.now()
ReadTouching(req) ==
    LET key == KeyOf(req)
        via == Route(key)
        p == IF via = "join" THEN Pending(key) ELSE <<key, started[key] + 1>>
        n == Cardinality({ w \in waiting : w.p = p }) + 1
    IN  /\ nreads' = nreads + 1
        /\ IF via = "hit"
           THEN /\ ev' = [type |-> "read", req |-> req, via |-> via,
                          value |-> MapGet(cache, key).value,
                          inv |-> InvalidationsRun(req)]
                /\ cache' = MapSet(cache, [MapGet(cache, key) EXCEPT !.touched = now])
                /\ UNCHANGED <<fetches, started, inFlight, waiting, call>>
           ELSE /\ ev' = [type |-> "read", req |-> req, via |-> via, p |-> p]
                /\ waiting' = waiting \cup {[p |-> p, n |-> n, inv |-> InvalidationsRun(req)]}
                /\ cache' = cache
                /\ IF via = "join"
                   THEN UNCHANGED <<fetches, started, inFlight, call>>
                   ELSE /\ fetches' = fetches \cup
                               {[p |-> p, req |-> req, key |-> key, ttl |-> TtlOf(req),
                                 phase |-> "http", attempt |-> 0, due |-> 0,
                                 began |-> Completed(req), out |-> 0,
                                 err |-> "none", calls |-> 1,
                                 params |-> ParamsOf(req)]}
                        /\ started' = [started EXCEPT ![key] = @ + 1]
                        /\ inFlight' = { e \in inFlight : e[1] # key } \cup {<<key, p>>}
        /\ UNCHANGED <<now, cmds, maxCacheSize, postOk, inv, nfails, call>>

Read(req) ==
    LET key == KeyOf(req)
        via == Route(key)
        p == IF via = "join" THEN Pending(key) ELSE <<key, started[key] + 1>>
        n == Cardinality({ w \in waiting : w.p = p }) + 1
    IN  /\ nreads' = nreads + 1
        /\ IF via = "hit"
           THEN /\ ev' = [type |-> "read", req |-> req, via |-> via,
                          value |-> MapGet(cache, key).value,
                          inv |-> InvalidationsRun(req)]
                /\ UNCHANGED <<fetches, started, inFlight, waiting, call>>
           ELSE /\ ev' = [type |-> "read", req |-> req, via |-> via, p |-> p]
                /\ waiting' = waiting \cup {[p |-> p, n |-> n, inv |-> InvalidationsRun(req)]}
                /\ IF via = "join"
                   THEN UNCHANGED <<fetches, started, inFlight, call>>
                   ELSE /\ fetches' = fetches \cup
                               {[p |-> p, req |-> req, key |-> key, ttl |-> TtlOf(req),
                                 phase |-> "http", attempt |-> 0, due |-> 0,
                                 began |-> Completed(req), out |-> 0,
                                 err |-> "none", calls |-> 1,
                                 params |-> ParamsOf(req)]}
                        /\ started' = [started EXCEPT ![key] = @ + 1]
                        /\ inFlight' = { e \in inFlight : e[1] # key } \cup {<<key, p>>}
        /\ UNCHANGED <<now, cache, cmds, maxCacheSize, postOk, inv, nfails, call>>

(* The fetcher: withRetry around one HTTP GET, then lines 321-327 of cached() *)

\* what the GET of fetch f returns: the data, marked with the promise that fetched it
\* and with how many commands on it the upstream had completed when the GET began
ValueOf(f) == [p |-> f.p, began |-> f.began, req |-> f.req]

\* the GET of fetch f returns 2xx: withRetry returns, cached() stores and prunes
HttpOk(f, r) ==
    LET entry == [key |-> f.key, expires |-> now + JitteredTtl(f.ttl, r),
                  value |-> ValueOf(f), touched |-> now,
                  storedInv |-> InvalidationsRun(f.req)]
        set == MapSet(cache, entry)
        kept == DropExpired(set, now)
    IN  /\ f.phase = "http"
        /\ cache' = pruneCache(set, now, maxCacheSize)
        /\ fetches' = (fetches \ {f}) \cup {[f EXCEPT !.phase = "resolved", !.out = 200]}
        /\ ev' = [type |-> "store", key |-> f.key,
                  expired |-> MapKeys(set) \ MapKeys(kept),
                  evicted |-> MapKeys(kept) \ MapKeys(cache')]
        /\ UNCHANGED <<now, inFlight, started, waiting, cmds, maxCacheSize, postOk, inv, nreads, nfails, call>>

\* the catch block of withRetry, lines 375-388: what becomes of a run that has
\* failed with this status
AfterFailure(run, status) ==
    LET attempt == run.attempt + 1
    IN  IF ~Retriable(status) \/ attempt >= maxRetries
        THEN [run EXCEPT !.attempt = attempt, !.phase = "rejected", !.out = status,
                         !.err = "axios"]
        ELSE [run EXCEPT !.attempt = attempt, !.phase = "backoff", !.out = status,
                         !.err = "axios", !.due = now + BackoffDelay(attempt)]

\* the same catch block for an Error thrown by fn() itself, which has no
\* response and so no status: never retried
AfterThrow(run) ==
    [run EXCEPT !.attempt = @ + 1, !.phase = "rejected", !.out = 0, !.err = "error"]

(* Response bodies and assertResultsArray(data, context) *)

\* response.data: an array, an object (with or without a results property,
\* which is an array or a string), or null
Bodies ==
    { [shape |-> "array", results |-> "absent", items |-> l] :
        l \in { <<>>, <<"object">>, <<"object", "null">> } }
    \cup { [shape |-> "object", results |-> "array", items |-> l] :
        l \in { <<"object">>, <<"object", "null">>, <<"array">>, <<"number">> } }
    \cup { [shape |-> "object", results |-> r, items |-> <<>>] : r \in {"absent", "string"} }
    \cup { [shape |-> "null", results |-> "absent", items |-> <<>>] }

\* the operations whose fetcher passes response.data through assertResultsArray
ShapeChecked == {"listVehicles", "getDrives"}

\* an assertResultsArray that takes any array, or object with results, as it is
assertResultsLoosely(data) ==
    IF data.shape = "array" \/ (data.shape = "object" /\ data.results # "absent")
    THEN [threw |-> "none", items |-> data.items]
    ELSE [threw |-> "format", items |-> <<>>]

\* assertResultsArray without a validator: what it throws, or the items it returns
assertResultsArray(data) ==
    LET isArray == \/ data.shape = "array"
                   \/ data.shape = "object" /\ data.results = "array"
        isValidShape(item) == item = "object"
    IN  IF ~isArray THEN [threw |-> "format", items |-> <<>>]
        ELSE IF \E i \in 1..Len(data.items) : ~isValidShape(data.items[i])
        THEN [threw |-> "item shape", items |-> <<>>]
        ELSE [threw |-> "none", items |-> data.items]

\* the GET of a listVehicles or getDrives fetch returns 2xx with this body:
\* the fetcher returns the items, or assertResultsArray throws inside fn()
HttpReply(f, data, r) ==
    /\ f.phase = "http"
    /\ f.req.op \in ShapeChecked
    /\ IF assertResultsArray(data).threw = "none"
       THEN HttpOk(f, r)
       ELSE /\ nfails' = nfails + 1
            /\ fetches' = (fetches \ {f}) \cup {AfterThrow(f)}
            /\ ev' = [type |-> "threw", p |-> f.p]
            /\ UNCHANGED <<now, cache, inFlight, started, waiting, cmds, maxCacheSize,
                           postOk, inv, nreads, call>>

\* a cached() that stores what a failed fetcher left behind
HttpFailStored(f, status) ==
    LET run == AfterFailure(f, status)
        entry == [key |-> f.key, expires |-> now + f.ttl, value |-> ValueOf(f),
                  touched |-> now, storedInv |-> InvalidationsRun(f.req)]
    IN  /\ f.phase = "http"
        /\ nfails' = nfails + 1
        /\ fetches' = (fetches \ {f}) \cup {run}
        /\ cache' = IF run.phase = "rejected"
                    THEN pruneCache(MapSet(cache, entry), now, maxCacheSize)
                    ELSE cache
        /\ ev' = NoEvent
        /\ UNCHANGED <<now, inFlight, started, waiting, cmds, maxCacheSize, postOk, inv, nreads, call>>

\* the GET of fetch f fails with an HTTP status
HttpFail(f, status) ==
    /\ f.phase = "http"
    /\ nfails' = nfails + 1
    /\ fetches' = (fetches \ {f}) \cup {AfterFailure(f, status)}
    /\ ev' = NoEvent
    /\ UNCHANGED <<now, cache, inFlight, started, waiting, cmds, maxCacheSize, postOk, inv, nreads, call>>

\* a retry that every waiting caller makes for itself
RetryGetPerCaller(f) ==
    /\ f.phase = "backoff"
    /\ now >= f.due
    /\ fetches' = (fetches \ {f}) \cup
           {[f EXCEPT !.phase = "http", !.due = 0, !.began = Completed(f.req),
                      !.calls = @ + Cardinality({ w \in waiting : w.p = f.p })]}
    /\ ev' = NoEvent
    /\ UNCHANGED <<now, cache, inFlight, started, waiting, cmds, maxCacheSize, postOk, inv, nreads, nfails, call>>

\* the backoff timer of fetch f fires: withRetry calls fn() again
RetryGet(f) ==
    /\ f.phase = "backoff"
    /\ now >= f.due
    /\ fetches' = (fetches \ {f}) \cup
           {[f EXCEPT !.phase = "http", !.due = 0, !.began = Completed(f.req),
                      !.calls = @ + 1]}
    /\ ev' = NoEvent
    /\ UNCHANGED <<now, cache, inFlight, started, waiting, cmds, maxCacheSize, postOk, inv, nreads, nfails, call>>

\* a cached() that deletes the in-flight entry after the await instead of in a
\* finally block: a rejection skips the delete
SettleKeepOnFailure(f) ==
    LET mine == { w \in waiting : w.p = f.p }
        outcome == IF f.phase = "resolved"
                   THEN [ok |-> TRUE, value |-> ValueOf(f)]
                   ELSE [ok |-> FALSE, error |-> toMcpError(f.err = "axios", f.out)]
    IN  /\ f.phase \in {"resolved", "rejected"}
        /\ inFlight' = IF f.phase = "resolved"
                       THEN { e \in inFlight : e[1] # f.key }
                       ELSE inFlight
        /\ waiting' = waiting \ mine
        /\ fetches' = fetches \ {f}
        /\ ev' = [type |-> "settle", p |-> f.p, req |-> f.req,
                  got |-> { [n |-> w.n, inv |-> w.inv, outcome |-> outcome] : w \in mine }]
        /\ UNCHANGED <<now, cache, started, cmds, maxCacheSize, postOk, inv, nreads, nfails, call>>

\* lines 330-334: the creator's await resumes, its finally deletes the key from
\* the in-flight map; the reads that await the promise get its outcome
Settle(f) ==
    LET mine == { w \in waiting : w.p = f.p }
        outcome == IF f.phase = "resolved"
                   THEN [ok |-> TRUE, value |-> ValueOf(f)]
                   ELSE [ok |-> FALSE, error |-> toMcpError(f.err = "axios", f.out)]
    IN  /\ f.phase \in {"resolved", "rejected"}
        /\ inFlight' = { e \in inFlight : e[1] # f.key }  \* inFlight.delete(key)
        /\ waiting' = waiting \ mine
        /\ fetches' = fetches \ {f}
        /\ ev' = [type |-> "settle", p |-> f.p, req |-> f.req,
                  got |-> { [n |-> w.n, inv |-> w.inv, outcome |-> outcome] : w \in mine }]
        /\ UNCHANGED <<now, cache, started, cmds, maxCacheSize, postOk, inv, nreads, nfails, call>>

(* sendCommand(vin, endpoint, payload), lines 488-499 *)

\* a command whose sendCommand has returned or thrown
Done(vin) == [vin |-> vin, phase |-> "done"]

\* a sendCommand that joins a command already under way for the vehicle
SendCommandCoalesced(vin) ==
    /\ cmds' = IF \E c \in 1..Len(cmds) : cmds[c].vin = vin /\ cmds[c].phase # "done"
               THEN cmds
               ELSE Append(cmds, [vin |-> vin, phase |-> "http", attempt |-> 0, due |-> 0,
                                  out |-> 0, err |-> "none", calls |-> 1])
    /\ ev' = [type |-> "command", vin |-> vin]
    /\ UNCHANGED <<now, cache, inFlight, fetches, started, waiting, maxCacheSize, postOk, inv, nreads, nfails, call>>

\* sendCommand(vin, ...) is called: withRetry calls fn(), which issues the POST
SendCommand(vin) ==
    /\ cmds' = Append(cmds, [vin |-> vin, phase |-> "http", attempt |-> 0, due |-> 0,
                             out |-> 0, err |-> "none", calls |-> 1])
    /\ ev' = [type |-> "command", vin |-> vin]
    /\ UNCHANGED <<now, cache, inFlight, fetches, started, waiting, maxCacheSize, postOk, inv, nreads, nfails, call>>

\* the POST of command c returns 2xx
PostOk(c) ==
    /\ cmds[c].phase = "http"
    /\ cmds' = [cmds EXCEPT ![c].phase = "ok", ![c].out = 200]
    /\ postOk' = [postOk EXCEPT ![cmds[c].vin] = @ + 1]
    /\ ev' = NoEvent
    /\ UNCHANGED <<now, cache, inFlight, fetches, started, waiting, maxCacheSize, inv, nreads, nfails, call>>

\* a sendCommand that invalidates whatever the outcome, in a finally block
PostFailInvalidating(c, status) ==
    LET run == AfterFailure(cmds[c], status)
    IN  /\ cmds[c].phase = "http"
        /\ nfails' = nfails + 1
        /\ cmds' = [cmds EXCEPT ![c] = IF run.phase = "rejected" THEN Done(run.vin) ELSE run]
        /\ cache' = IF run.phase = "rejected" THEN invalidateVin(cache, run.vin) ELSE cache
        /\ inv' = IF run.phase = "rejected" THEN [inv EXCEPT ![run.vin] = @ + 1] ELSE inv
        /\ ev' = NoEvent
        /\ UNCHANGED <<now, inFlight, fetches, started, waiting, maxCacheSize, postOk, nreads, call>>

\* the POST of command c fails with an HTTP status; sendCommand throws when
\* withRetry gives up
PostFail(c, status) ==
    LET run == AfterFailure(cmds[c], status)
    IN  /\ cmds[c].phase = "http"
        /\ nfails' = nfails + 1
        /\ cmds' = [cmds EXCEPT ![c] = IF run.phase = "rejected" THEN Done(run.vin) ELSE run]
        /\ ev' = NoEvent
        /\ UNCHANGED <<now, cache, inFlight, fetches, started, waiting, maxCacheSize, postOk, inv, nreads, call>>

\* the backoff timer of command c fires
RetryPost(c) ==
    /\ cmds[c].phase = "backoff"
    /\ now >= cmds[c].due
    /\ cmds' = [cmds EXCEPT ![c].phase = "http", ![c].due = 0, ![c].calls = @ + 1]
    /\ ev' = NoEvent
    /\ UNCHANGED <<now, cache, inFlight, fetches, started, waiting, maxCacheSize, postOk, inv, nreads, nfails, call>>

\* an invalidation that also drops the vehicle's requests from the in-flight map
InvalidateDetaching(c) ==
    /\ cmds[c].phase = "ok"
    /\ cache' = invalidateVin(cache, cmds[c].vin)
    /\ inFlight' = { e \in inFlight : ~Invalidated(e[1], cmds[c].vin) }
    /\ inv' = [inv EXCEPT ![cmds[c].vin] = @ + 1]
    /\ cmds' = [cmds EXCEPT ![c] = Done(cmds[c].vin)]
    /\ ev' = [type |-> "invalidate", vin |-> cmds[c].vin,
              removed |-> MapKeys(cache) \ MapKeys(cache')]
    /\ UNCHANGED <<now, fetches, started, waiting, maxCacheSize, postOk, nreads, nfails, call>>

\* line 497: sendCommand resumes after withRetry returned and invalidates
Invalidate(c) ==
    /\ cmds[c].phase = "ok"
    /\ cache' = invalidateVin(cache, cmds[c].vin)
    /\ inv' = [inv EXCEPT ![cmds[c].vin] = @ + 1]
    /\ cmds' = [cmds EXCEPT ![c] = Done(cmds[c].vin)]
    /\ ev' = [type |-> "invalidate", vin |-> cmds[c].vin,
              removed |-> MapKeys(cache) \ MapKeys(cache')]
    /\ UNCHANGED <<now, inFlight, fetches, started, waiting, maxCacheSize, postOk, nreads, nfails, call>>

(* Time *)

\* the clock advances by ms; promise reactions run before any time passes
Tick(ms) ==
    /\ ~MicrotaskPending
    /\ now' = now + ms
    /\ ev' = NoEvent
    /\ UNCHANGED <<cache, inFlight, fetches, started, waiting, cmds, maxCacheSize, postOk, inv, nreads, nfails, call>>

\* no command has been sent to the vehicle yet
FirstCommand(vin) == \A c \in 1..Len(cmds) : cmds[c].vin # vin

(* Spec: every operation of the client, under the bounds MaxReads, MaxFails, MaxTicks, *)
(* with one command for a vehicle                                                     *)

Next ==
    \/ \E req \in Requests : nreads < MaxReads /\ Read(req)
    \/ \E f \in fetches, r \in Randoms : HttpOk(f, r)
    \/ \E f \in fetches, s \in FailStatuses : nfails < MaxFails /\ HttpFail(f, s)
    \/ \E f \in fetches : RetryGet(f)
    \/ \E f \in fetches : Settle(f)
    \/ \E vin \in Commanded : FirstCommand(vin) /\ SendCommand(vin)
    \/ \E c \in 1..Len(cmds) : PostOk(c)
    \/ \E c \in 1..Len(cmds), s \in FailStatuses : nfails < MaxFails /\ PostFail(c, s)
    \/ \E c \in 1..Len(cmds) : RetryPost(c)
    \/ \E c \in 1..Len(cmds) : Invalidate(c)
    \/ (now < MaxTicks * TickMs /\ Tick(TickMs))

Spec == Init /\ [][Next]_vars

(* SpecCommands: commands that fail and are retried, several for one vehicle, *)
(* next to a read of the vehicle                                             *)

\* the reads of the roster and of the vehicle that is sent the command
LiveRequests == { req \in Requests : Scoped(req, V1) }

NextCommands ==
    \/ \E vin \in Commanded : Len(cmds) < MaxCommands /\ SendCommand(vin)
    \/ \E c \in 1..Len(cmds) : PostOk(c)
    \/ \E c \in 1..Len(cmds), s \in FailStatuses : nfails < CommandFails /\ PostFail(c, s)
    \/ \E c \in 1..Len(cmds) : RetryPost(c)
    \/ \E c \in 1..Len(cmds) : Invalidate(c)
    \/ \E req \in LiveRequests : nreads < CommandReads /\ Read(req)
    \/ \E f \in fetches : HttpOk(f, 0)
    \/ \E f \in fetches : Settle(f)
    \/ (now < CommandTicks * CommandTickMs /\ Tick(CommandTickMs))

SpecCommands == Init /\ [][NextCommands]_vars

(* SpecLive: reads and a command whose HTTP calls settle, whose timers fire   *)
(* and whose promise reactions run                                           *)

\* a setTimeout of withRetry has not fired yet
TimerPending ==
    \/ \E f \in fetches : f.phase = "backoff" /\ f.due > now
    \/ \E c \in 1..Len(cmds) : cmds[c].phase = "backoff" /\ cmds[c].due > now

\* the GET that is outstanding for key returns or fails (Math.random() = 0: the
\* expiry of the entry plays no part here)
GetSettles(key) ==
    \E f \in fetches :
        /\ f.key = key
        /\ \/ HttpOk(f, 0)
           \/ \E s \in FailStatuses : nfails < LiveFails /\ HttpFail(f, s)

\* the POST that is outstanding for command c returns or fails
PostSettles(c) ==
    \/ PostOk(c)
    \/ \E s \in RetryStatuses : nfails < LiveFails /\ PostFail(c, s)

\* time passes up to the next timer
TimePasses == TimerPending /\ Tick(LiveTickMs)

\* what the environment and the event loop do for the calls that are under
\* way: an HTTP call settles, time passes, a timer fires, a promise reaction runs
Progress ==
    \/ \E key \in Keys : GetSettles(key)
    \/ \E f \in fetches : RetryGet(f)
    \/ \E f \in fetches : Settle(f)
    \/ \E c \in 1..Len(cmds) : PostSettles(c)
    \/ \E c \in 1..Len(cmds) : RetryPost(c)
    \/ \E c \in 1..Len(cmds) : Invalidate(c)
    \/ TimePasses

NextLive ==
    \/ \E req \in LiveRequests : nreads < LiveReads /\ Read(req)
    \/ \E vin \in Commanded : FirstCommand(vin) /\ SendCommand(vin)
    \/ Progress

\* as long as something is outstanding, the next of these steps is taken: every
\* upstream call settles, every timer fires, every promise reaction runs
Fairness == WF_vars(Progress)

SpecLive == Init /\ [][NextLive]_vars /\ Fairness

(* SpecLife: every operation of a client whose cache holds one entry, so that *)
(* keys are evicted as well as invalidated and expired                        *)

\* maxCacheSize: 1
InitLife == Start({1})

SpecLife == InitLife /\ [][Next]_vars

(* SpecCache: reads that succeed, with a finer clock: expiry, jitter and eviction *)

NextCache ==
    \/ \E req \in Requests : nreads < CacheReads /\ Read(req)
    \/ \E f \in fetches, r \in Randoms : HttpOk(f, r)
    \/ \E f \in fetches : Settle(f)
    \/ (now < CacheTicks * CacheTickMs /\ Tick(CacheTickMs))

SpecCache == InitCache /\ [][NextCache]_vars

(* SpecRetry: reads whose HTTP calls fail, with a clock fine enough for the backoff delays *)

NextRetry ==
    \/ \E req \in Requests : nreads < RetryReads /\ Read(req)
    \/ \E f \in fetches, r \in Randoms : HttpOk(f, r)
    \/ \E f \in fetches, s \in RetryStatuses : nfails < RetryFails /\ HttpFail(f, s)
    \/ \E f \in fetches : RetryGet(f)
    \/ \E f \in fetches : Settle(f)
    \/ (now < RetryTicks * RetryTickMs /\ Tick(RetryTickMs))

SpecRetry == Init /\ [][NextRetry]_vars

\* the clock stands still in SpecDrives, so no entry expires there whatever
\* Math.random() returns
DriveRandoms == {0}

\* getDrives, getHistoricalStates and listVehicles with their parameter objects
\* and response bodies, within the TTL
NextDrives ==
    \/ \E req \in DriveRequests : nreads < DriveReads /\ Read(req)
    \/ \E f \in fetches, r \in DriveRandoms : f.req.op \notin ShapeChecked /\ HttpOk(f, r)
    \/ \E f \in fetches, data \in Bodies, r \in DriveRandoms :
          /\ assertResultsArray(data).threw # "none" => nfails < DriveFails
          /\ HttpReply(f, data, r)
    \/ \E f \in fetches : Settle(f)

SpecDrives == InitDrives /\ [][NextDrives]_vars

-----------------------------------------------------------------------------
(* Errors and their descriptors: toMcpError(error, context) in full *)

\* the values a catch block can receive: an axios error (status 0: no response
\* came), another Error, or a thrown value that is no Error.  An axios error
\* carries the request config, whose headers hold the bearer token.
ErrorStatuses == {0, 400, 401, 403, 404, 408, 429, 500, 503}

Tokens == {"token-1", "token-2"}

AxiosErrors ==
    [kind : {"axios"}, status : ErrorStatuses, message : {"", "failed"},
     url : {"/vehicles"}, method : {"get", "post"}, authorization : Tokens]

PlainErrors ==
    [kind : {"error", "other"}, status : {0}, message : {"", "boom"},
     url : {""}, method : {""}, authorization : {""}]

Errors == AxiosErrors \cup PlainErrors

Contexts == {"ctx", "ctx2"}

\* error.response?.statusText (undefined: "")
StatusTextOf(status) ==
    CASE status = 0 -> ""
      [] status = 429 -> "Too Many Requests"
      [] OTHER -> "status text"

getSuggestionForStatus(status) ==
    CASE status = 0 -> "Retry or adjust parameters."
      [] status = 401 -> "Check the Tessie API token."
      [] status = 404 -> "Verify the VIN or resource exists."
      [] status = 429 -> "Back off and retry after the server throttle window."
      [] OTHER -> "Retry or adjust parameters."

\* a toMcpError that copies error.config as it is
McpErrorWithConfig(error, context) ==
    [isError |-> TRUE, status |-> error.status,
     message |-> IF error.message # "" THEN error.message ELSE "Request failed",
     retriable |-> toMcpError(TRUE, error.status).retriable,
     suggestion |-> getSuggestionForStatus(error.status),
     details |-> [context |-> context,
                  request |-> [url |-> error.url, method |-> error.method,
                               headers |-> [Authorization |-> error.authorization]],
                  statusText |-> StatusTextOf(error.status)]]

\* the descriptor of type McpError that toMcpError returns
McpError(error, context) ==
    LET core == toMcpError(error.kind = "axios", error.status)
    IN  CASE error.kind = "axios" ->
               [isError |-> TRUE, status |-> core.status,
                message |-> IF error.message # "" THEN error.message ELSE "Request failed",
                retriable |-> core.retriable,
                suggestion |-> getSuggestionForStatus(core.status),
                details |-> [context |-> context,
                             request |-> [url |-> error.url, method |-> error.method],
                             statusText |-> StatusTextOf(error.status)]]
          [] error.kind = "error" ->
               [isError |-> TRUE, message |-> error.message, retriable |-> core.retriable,
                suggestion |-> "Retry the action or check inputs.",
                details |-> [context |-> context]]
          [] OTHER ->
               [isError |-> TRUE, message |-> "Unknown error", retriable |-> core.retriable,
                details |-> [context |-> context]]

\* a catch block hands what it caught to toMcpError
Caught(error, context) ==
    /\ ev' = [type |-> "caught", error |-> error, context |-> context,
              descriptor |-> McpError(error, context)]
    /\ UNCHANGED <<now, cache, inFlight, fetches, started, waiting, cmds, maxCacheSize,
                   postOk, inv, nreads, nfails, call>>

\* the descriptor that a method of the client rejects with, as the value a
\* catch block receives: a plain object, for which axios.isAxiosError is false
\* and which is no instance of Error
Rejected(descriptor) ==
    [kind |-> "other", status |-> 0, message |-> descriptor.message,
     url |-> "", method |-> "", authorization |-> ""]

\* the handler of fetch_vehicle_state when client.getVehicleState rejects: the
\* GET threw error, withRetry threw toMcpError(error, "getVehicleState"), and
\* the catch of the handler returns toMcpError of that, wrapped as content
FetchVehicleState(error) ==
    LET descriptor == McpError(error, "getVehicleState")
    IN  /\ ev' = [type |-> "fetch_vehicle_state", error |-> error,
                  rejected |-> descriptor,
                  payload |-> McpError(Rejected(descriptor), "fetch_vehicle_state")]
        /\ UNCHANGED <<now, cache, inFlight, fetches, started, waiting, cmds,
                       maxCacheSize, postOk, inv, nreads, nfails, call>>

(* SpecErrors: every error value, classified *)

NextErrors ==
    \/ \E error \in Errors, context \in Contexts : Caught(error, context)
    \/ \E error \in Errors : FetchVehicleState(error)

SpecErrors == Init /\ [][NextErrors]_vars

-----------------------------------------------------------------------------
(* The manage_vehicle_command tool: confirmation gate and validation in    *)
(* front of client.sendCommand                                            *)

Bool(b) == [t |-> "boolean", n |-> IF b THEN 1 ELSE 0, s |-> <<>>]

SAFE_OPERATIONS == {"flash_lights", "honk", "wake"}

\* the operations of the model: the safe ones, two without parameters, and
\* those whose parameters the claims name
Operations ==
    SAFE_OPERATIONS \cup
    {"lock", "enable_sentry_mode", "set_charge_limit", "set_speed_limit",
     "set_seat_heating", "enable_speed_limit", "set_cabin_overheat_protection_temp"}

\* params with every property left undefined (or no params at all)
NoParams ==
    [confirm |-> Undefined, charge_limit_percent |-> Undefined,
     speed_limit_mph |-> Undefined, seat_position |-> Undefined,
     seat_level |-> Undefined, speed_limit_pin |-> Undefined,
     cabin_overheat_temp_c |-> Undefined]

Confirms == {Undefined, Bool(FALSE), Bool(TRUE)}

\* the params the schema lets through, per operation: the properties the
\* operation reads, missing, in range, at and beyond the ends of the range
ParamsFor(operation) ==
    LET base == { [NoParams EXCEPT !.confirm = c] : c \in Confirms }
    IN  CASE operation = "set_charge_limit" ->
               { [q EXCEPT !.charge_limit_percent = v] :
                   q \in base, v \in {Undefined, Num(0), Num(1), Num(100), Num(101)} }
          [] operation = "set_speed_limit" ->
               { [q EXCEPT !.speed_limit_mph = v] :
                   q \in base, v \in {Undefined, Num(0), Num(60)} }
          [] operation = "set_seat_heating" ->
               { [q EXCEPT !.seat_position = v, !.seat_level = w] :
                   q \in base, v \in {Undefined, Num(0)},
                   w \in {Undefined, Num(-1), Num(0), Num(3), Num(5)} }
          [] operation = "enable_speed_limit" ->
               { [q EXCEPT !.speed_limit_pin = v] :
                   q \in base, v \in {Undefined, Str(<<>>), Str(<<" ">>), Str(<<"1234">>)} }
          [] operation = "set_cabin_overheat_protection_temp" ->
               { [q EXCEPT !.cabin_overheat_temp_c = v] :
                   q \in base, v \in {Undefined, Num(5), Num(15), Num(60), Num(61)} }
          [] OTHER -> base

ToolInputs ==
    UNION { { [vin |-> V1, operation |-> o, params |-> q] : q \in ParamsFor(o) } :
              o \in Operations }

\* what the ensure* functions throw (<<>>: nothing); messages of the tool are
\* sequences of texts
Invalid(name) == <<"Missing or invalid", name>>

ensurePositive(value, name) ==
    IF value = Undefined \/ value.n <= 0 THEN Invalid(name) ELSE <<>>

ensureNumberProvided(value, name, allowZero) ==
    IF value = Undefined \/ (~allowZero /\ value.n <= 0) THEN Invalid(name) ELSE <<>>

ensureNonEmptyString(value, name) ==
    IF value = Undefined \/ { value.s[i] : i \in 1..Len(value.s) } \subseteq {" "}
    THEN Invalid(name) ELSE <<>>

\* an ensureRange that checks the lower end only
ensureRangeNoUpper(value, name, min, max) ==
    IF value = Undefined \/ value.n < min THEN Invalid(name) ELSE <<>>

ensureRange(value, name, min, max) ==
    IF value = Undefined \/ value.n < min \/ value.n > max THEN Invalid(name) ELSE <<>>

\* the checks of the handler after the gate, in their order: the message of
\* the first Error thrown, <<>> when none is
Validation(operation, params) ==
    CASE operation = "set_charge_limit" ->
           ensureRange(params.charge_limit_percent, "charge_limit_percent", 1, 100)
      [] operation = "set_speed_limit" ->
           ensurePositive(params.speed_limit_mph, "speed_limit_mph")
      [] operation = "set_seat_heating" ->
           IF ensureNumberProvided(params.seat_position, "seat_position", TRUE) # <<>>
           THEN ensureNumberProvided(params.seat_position, "seat_position", TRUE)
           ELSE ensureRange(params.seat_level, "seat_level", 0, 3)
      [] operation = "enable_speed_limit" ->
           ensureNonEmptyString(params.speed_limit_pin, "speed_limit_pin")
      [] operation = "set_cabin_overheat_protection_temp" ->
           ensureRange(params.cabin_overheat_temp_c, "cabin_overheat_temp_c", 15, 60)
      [] OTHER -> <<>>

ConfirmationRequired ==
    [isError |-> TRUE, message |-> <<"Confirmation required for this operation.">>,
     guidance |-> "Pass params.confirm: true to proceed."]

\* a handler whose gate lets an explicit confirm: false through
GateOnMissingConfirm(operation, params) ==
    operation \notin SAFE_OPERATIONS /\ params.confirm = Undefined

\* isDestructive && params?.confirm !== true
Gate(operation, params) ==
    operation \notin SAFE_OPERATIONS /\ params.confirm # Bool(TRUE)

\* the handler of manage_vehicle_command up to its first await: it returns an
\* error payload, or calls client.sendCommand, which issues the POST
ManageVehicleCommand(input) ==
    LET thrown == Validation(input.operation, input.params)
    IN  IF Gate(input.operation, input.params)
        THEN /\ ev' = [type |-> "tool", input |-> input, payload |-> ConfirmationRequired]
             /\ UNCHANGED <<now, cache, inFlight, fetches, started, waiting, cmds,
                            maxCacheSize, postOk, inv, nreads, nfails, call>>
        ELSE IF thrown # <<>>
        THEN /\ ev' = [type |-> "tool", input |-> input,
                       payload |-> McpError([kind |-> "error", status |-> 0, message |-> thrown],
                                            "manage_vehicle_command")]
             /\ UNCHANGED <<now, cache, inFlight, fetches, started, waiting, cmds,
                            maxCacheSize, postOk, inv, nreads, nfails, call>>
        ELSE SendCommand(input.vin)

(* SpecTools: tool calls, and the commands they dispatch, one for a vehicle *)

\* the handler gets as far as client.sendCommand
Dispatches(input) ==
    ~Gate(input.operation, input.params) /\ Validation(input.operation, input.params) = <<>>

NextTools ==
    \/ \E input \in ToolInputs :
          (Dispatches(input) => FirstCommand(input.vin)) /\ ManageVehicleCommand(input)
    \/ \E c \in 1..Len(cmds) : PostOk(c)
    \/ \E c \in 1..Len(cmds), s \in FailStatuses : nfails < ToolFails /\ PostFail(c, s)
    \/ \E c \in 1..Len(cmds) : RetryPost(c)
    \/ \E c \in 1..Len(cmds) : Invalidate(c)
    \/ (now < ToolTicks * ToolTickMs /\ Tick(ToolTickMs))

SpecTools == Init /\ [][NextTools]_vars

-----------------------------------------------------------------------------
(* ErrorHandler (error-handler.ts) and the get_vehicle_current_state tool, *)
(* which reads the vehicle state through ErrorHandler.withRetry            *)

\* error.response?.status (0: no response)
HandlerStatuses == {0, 400, 401, 403, 404, 408, 429, 500, 501, 502, 503, 504}

\* error.code
ErrorCodes == {"none", "ECONNABORTED", "ETIMEDOUT", "ENOTFOUND", "ECONNREFUSED"}

\* error.response.data.error, as the set of the words it includes that the
\* classifier looks for ({}: the response has no error text); "invalid" stands
\* for a text with none of them
ResponseErrors ==
    { {}, {"invalid"}, {"asleep"}, {"sleeping"}, {"offline"}, {"not connected"},
      {"asleep", "offline"} }

\* what the HTTP layer throws: an AxiosError with or without a response
AxiosThrown ==
    [kind : {"axios"}, status : HandlerStatuses \ {0}, code : ErrorCodes, data : ResponseErrors]
    \cup [kind : {"axios"}, status : {0}, code : ErrorCodes, data : {{}}]

\* an Error that is no AxiosError
PlainThrown == [kind |-> "error", status |-> 0, code |-> "none", data |-> {}]

Thrown == AxiosThrown \cup {PlainThrown}

Enhanced(type, message, retryable, statusCode) ==
    [type |-> type, message |-> message, retryable |-> retryable, statusCode |-> statusCode]

\* a classifier that goes by the status alone
classifyByStatusOnly(error) ==
    CASE error.status \in {401, 403} ->
           Enhanced("AUTHENTICATION_ERROR", "Authentication failed", FALSE, error.status)
      [] error.status = 429 ->
           Enhanced("RATE_LIMIT_ERROR", "Rate limit exceeded", TRUE, error.status)
      [] error.status = 404 ->
           Enhanced("API_ERROR", "Resource not found", FALSE, error.status)
      [] error.status \in {500, 502, 503, 504} ->
           Enhanced("API_ERROR", "Server error", TRUE, error.status)
      [] error.status = 408 ->
           Enhanced("TIMEOUT_ERROR", "Request timeout", TRUE, error.status)
      [] OTHER ->
           Enhanced("API_ERROR", "HTTP", error.status >= 500, error.status)

\* classifyAxiosError(error); statusCode 0: the result has no statusCode
classifyAxiosError(error) ==
    IF error.data # {} /\ ("asleep" \in error.data \/ "sleeping" \in error.data)
    THEN Enhanced("VEHICLE_ASLEEP_ERROR", "Vehicle is asleep", TRUE, error.status)
    ELSE IF error.data # {} /\ ("offline" \in error.data \/ "not connected" \in error.data)
    THEN Enhanced("VEHICLE_OFFLINE_ERROR", "Vehicle is offline", FALSE, error.status)
    ELSE CASE error.status \in {401, 403} ->
                Enhanced("AUTHENTICATION_ERROR", "Authentication failed", FALSE, error.status)
           [] error.status = 429 ->
                Enhanced("RATE_LIMIT_ERROR", "Rate limit exceeded", TRUE, error.status)
           [] error.status = 404 ->
                Enhanced("API_ERROR", "Resource not found", FALSE, error.status)
           [] error.status \in {500, 502, 503, 504} ->
                Enhanced("API_ERROR", "Server error", TRUE, error.status)
           [] error.status = 408 ->
                Enhanced("TIMEOUT_ERROR", "Request timeout", TRUE, error.status)
           [] OTHER ->
                IF error.code \in {"ECONNABORTED", "ETIMEDOUT"}
                THEN Enhanced("TIMEOUT_ERROR", "Connection timeout", TRUE, 0)
                ELSE IF error.code \in {"ENOTFOUND", "ECONNREFUSED"}
                THEN Enhanced("NETWORK_ERROR", "Network connection failed", TRUE, 0)
                ELSE Enhanced("API_ERROR", "HTTP",
                              IF error.status # 0 THEN error.status >= 500 ELSE FALSE,
                              error.status)

\* ErrorHandler.classifyError(error): an AxiosError, another Error, or any
\* other value (kind "object": a plain object)
classifyError(error) ==
    CASE error.kind = "axios" -> classifyAxiosError(error)
      [] error.kind = "error" -> Enhanced("UNKNOWN_ERROR", "error.message", FALSE, 0)
      [] OTHER -> Enhanced("UNKNOWN_ERROR", "String(error)", FALSE, 0)

DEFAULT_RETRY_OPTIONS ==
    [maxRetries |-> 3, baseDelay |-> 1000, maxDelay |-> 10000, exponentialBase |-> 2,
     retryableErrors |-> {"NETWORK_ERROR", "TIMEOUT_ERROR", "RATE_LIMIT_ERROR",
                          "VEHICLE_ASLEEP_ERROR"}]

\* { ...DEFAULT_RETRY_OPTIONS, ...options } with the options of getVehicleState
RetryConfig(useCache) ==
    [DEFAULT_RETRY_OPTIONS EXCEPT !.maxRetries = IF useCache THEN 2 ELSE 3,
                                  !.baseDelay = 1500]

RECURSIVE Power(_, _)
Power(base, n) == IF n = 0 THEN 1 ELSE base * Power(base, n - 1)

\* a backoff whose exponent is the number of the attempt to come
JitteredDelayFromNext(config, attempt, r) ==
    LET delay == config.baseDelay * Power(config.exponentialBase, attempt + 1)
    IN  (IF delay < config.maxDelay THEN delay ELSE config.maxDelay) + r

\* the delay before the next attempt; r: Math.random() in thousandths
JitteredDelay(config, attempt, r) ==
    LET delay == config.baseDelay * Power(config.exponentialBase, attempt)
    IN  (IF delay < config.maxDelay THEN delay ELSE config.maxDelay) + r

\* attempt === config.maxRetries || !config.retryableErrors.includes(lastError.type)
GivesUp(config, attempt, lastError) ==
    attempt = config.maxRetries \/ lastError.type \notin config.retryableErrors

shouldDegrade(error) ==
    error.type \in {"VEHICLE_ASLEEP_ERROR", "VEHICLE_OFFLINE_ERROR", "RATE_LIMIT_ERROR",
                    "TIMEOUT_ERROR"}

\* the tool is called: the handler calls getVehicleState, whose withRetry
\* makes its first attempt
GetVehicleCurrentState(useCache) ==
    /\ call.phase \in {"idle", "done"}
    /\ call' = [phase |-> "http", attempt |-> 0, config |-> RetryConfig(useCache),
                raw |-> PlainThrown, lastError |-> classifyError(PlainThrown),
                due |-> 0, calls |-> 1, outcome |-> "none",
                enhancedError |-> classifyError(PlainThrown)]
    /\ ev' = NoEvent
    /\ UNCHANGED <<now, cache, inFlight, fetches, started, waiting, cmds, maxCacheSize,
                   postOk, inv, nreads, nfails>>

\* the GET returns 2xx: withRetry returns and the handler returns the state
StateOk ==
    /\ call.phase = "http"
    /\ call' = [call EXCEPT !.phase = "done", !.outcome = "result"]
    /\ ev' = NoEvent
    /\ UNCHANGED <<now, cache, inFlight, fetches, started, waiting, cmds, maxCacheSize,
                   postOk, inv, nreads, nfails>>

\* the GET throws error: withRetry classifies it and sleeps, or throws the
\* classification, which the catch of the handler classifies again and
\* turns into the fallback response or into a thrown Error
StateFail(error, r) ==
    LET lastError == classifyError(error)
        thrown == [kind |-> "object", status |-> 0, code |-> "none", data |-> {}]
        enhancedError == classifyError(thrown)
    IN  /\ call.phase = "http"
        /\ call' =
              IF GivesUp(call.config, call.attempt, lastError)
              THEN [call EXCEPT !.phase = "done", !.raw = error, !.lastError = lastError,
                                !.enhancedError = enhancedError,
                                !.outcome = IF shouldDegrade(enhancedError)
                                            THEN "degraded" ELSE "thrown"]
              ELSE [call EXCEPT !.phase = "sleep", !.raw = error, !.lastError = lastError,
                                !.due = now + JitteredDelay(call.config, call.attempt, r)]
        /\ ev' = NoEvent
        /\ UNCHANGED <<now, cache, inFlight, fetches, started, waiting, cmds, maxCacheSize,
                       postOk, inv, nreads, nfails>>

\* the sleep of withRetry is over: the next attempt
Wake ==
    /\ call.phase = "sleep"
    /\ now >= call.due
    /\ call' = [call EXCEPT !.phase = "http", !.attempt = @ + 1, !.calls = @ + 1, !.due = 0]
    /\ ev' = NoEvent
    /\ UNCHANGED <<now, cache, inFlight, fetches, started, waiting, cmds, maxCacheSize,
                   postOk, inv, nreads, nfails>>

(* SpecHandler: calls of get_vehicle_current_state *)

NextHandler ==
    \/ \E useCache \in BOOLEAN : GetVehicleCurrentState(useCache)
    \/ StateOk
    \/ \E error \in Thrown, r \in Randoms : StateFail(error, r)
    \/ Wake
    \/ (now < HandlerTicks * HandlerTickMs /\ Tick(HandlerTickMs))

SpecHandler == Init /\ [][NextHandler]_vars

-----------------------------------------------------------------------------
(* sanitizeMetaDeep: the copy of a logged value without its sensitive keys *)

\* the objects of the value: object k is heap[k]
MetaRefs == 1 .. MetaNodes

\* a value: a primitive, or a reference to an object, array or Error
MetaPrim == [t |-> "prim", n |-> 0]
MetaRef(k) == [t |-> "ref", n |-> k]
MetaValues == {MetaPrim} \cup {MetaRef(k) : k \in MetaRefs}

\* the keys of an object, in insertion order; a key may be absent
MetaKeys == <<"Authorization", "vin">>
MetaAbsent == [t |-> "absent", n |-> 0]

\* key.toLowerCase()
toLowerCase(key) == IF key = "Authorization" THEN "authorization" ELSE key

SENSITIVE_KEYS == {"headers", "authorization", "auth", "token", "password", "apikey", "api_key"}

\* a plain object, an array (empty or of one item) or an Error
MetaObjects ==
    [t : {"object"}, fields : [1 .. Len(MetaKeys) -> MetaValues \cup {MetaAbsent}],
     items : {<<>>}]
MetaArrays ==
    [t : {"array"}, fields : {[i \in 1 .. Len(MetaKeys) |-> MetaAbsent]},
     items : {<<>>} \cup {<<v>> : v \in MetaValues}]
MetaError ==
    [t |-> "error", fields |-> [i \in 1 .. Len(MetaKeys) |-> MetaAbsent], items |-> <<>>]

Heaps == [MetaRefs -> MetaObjects \cup MetaArrays \cup {MetaError}]

\* the results: a primitive, the "[Circular]" marker, a clone with its
\* entries, an array of results, and the RangeError of a call stack that is
\* used up
OutPrim == [t |-> "prim", entries |-> {}, items |-> <<>>]
OutCircular == [t |-> "[Circular]", entries |-> {}, items |-> <<>>]
OutClone(entries) == [t |-> "object", entries |-> entries, items |-> <<>>]
OutArray(items) == [t |-> "array", entries |-> {}, items |-> items]
RangeError == [t |-> "RangeError", entries |-> {}, items |-> <<>>]

Returned(out, visited) == [out |-> out, visited |-> visited, thrown |-> FALSE]
Overflow(visited) == [out |-> RangeError, visited |-> visited, thrown |-> TRUE]

RECURSIVE sanitizeMetaDeep(_, _, _, _)
RECURSIVE sanitizeItems(_, _, _, _, _)
RECURSIVE sanitizeEntries(_, _, _, _, _)

\* value.map((v) => this.sanitizeMetaDeep(v, visited)) from item i on
sanitizeItems(heap, items, i, visited, depth) ==
    IF i > Len(items) THEN [outs |-> <<>>, visited |-> visited, thrown |-> FALSE]
    ELSE LET first == sanitizeMetaDeep(heap, items[i], visited, depth)
         IN  IF first.thrown THEN [outs |-> <<>>, visited |-> first.visited, thrown |-> TRUE]
             ELSE LET rest == sanitizeItems(heap, items, i + 1, first.visited, depth)
                  IN  [outs |-> <<first.out>> \o rest.outs, visited |-> rest.visited,
                       thrown |-> rest.thrown]

\* the loop over Object.entries(value) from key i on
sanitizeEntries(heap, fields, i, visited, depth) ==
    IF i > Len(MetaKeys) THEN [entries |-> {}, visited |-> visited, thrown |-> FALSE]
    ELSE IF fields[i] = MetaAbsent \/ toLowerCase(MetaKeys[i]) \in SENSITIVE_KEYS
    THEN sanitizeEntries(heap, fields, i + 1, visited, depth)
    ELSE LET first == sanitizeMetaDeep(heap, fields[i], visited, depth)
         IN  IF first.thrown THEN [entries |-> {}, visited |-> first.visited, thrown |-> TRUE]
             ELSE LET rest == sanitizeEntries(heap, fields, i + 1, first.visited, depth)
                  IN  [entries |-> {<<MetaKeys[i], first.out>>} \cup rest.entries,
                       visited |-> rest.visited, thrown |-> rest.thrown]

\* sanitizeMetaDeep(value, visited) at depth frames of the call stack
sanitizeMetaDeep(heap, value, visited, depth) ==
    IF depth > MaxStack THEN Overflow(visited)
    ELSE IF value.t = "prim" THEN Returned(OutPrim, visited)
    ELSE LET node == heap[value.n]
         IN  CASE node.t = "error" ->
                    Returned(OutClone({<<"name", OutPrim>>, <<"message", OutPrim>>}), visited)
               [] node.t = "array" ->
                    LET r == sanitizeItems(heap, node.items, 1, visited, depth + 1)
                    IN  IF r.thrown THEN Overflow(r.visited)
                        ELSE Returned(OutArray(r.outs), r.visited)
               [] OTHER ->
                    IF value.n \in visited THEN Returned(OutCircular, visited)
                    ELSE LET r == sanitizeEntries(heap, node.fields, 1,
                                                  visited \cup {value.n}, depth + 1)
                         IN  IF r.thrown THEN Overflow(r.visited)
                             ELSE Returned(OutClone(r.entries), r.visited)

\* logSafeDebug(message, meta) with debug logging enabled: the value logged is
\* sanitizeMetaDeep(meta), where meta is object 1 of the heap
LogSafeDebug(heap) ==
    LET r == sanitizeMetaDeep(heap, MetaRef(1), {}, 1)
    IN  /\ ev' = [type |-> "sanitized", heap |-> heap, safeMeta |-> r.out]
        /\ UNCHANGED <<now, cache, inFlight, fetches, started, waiting, cmds, maxCacheSize,
                       postOk, inv, nreads, nfails, call>>

(* SpecMeta: one value is logged *)

NextMeta == \E heap \in Heaps : (ev = NoEvent /\ LogSafeDebug(heap))

SpecMeta == Init /\ [][NextMeta]_vars

-----------------------------------------------------------------------------
(* Properties *)

\* the fetches of key that still have an HTTP call or a backoff ahead of them
Outstanding(key) == { f \in fetches : f.key = key /\ f.phase \in {"http", "backoff"} }

\* a read that finds nothing to serve and nothing to join starts a fetch: it
\* creates the key's next promise and issues its HTTP GET in the same step
ReadGoesUpstream(req) ==
    LET key == KeyOf(req)
    IN  (Read(req) /\ Route(key) = "fetch") =>
            /\ started' = [started EXCEPT ![key] = @ + 1]
            /\ \E f \in fetches' \ fetches :
                   f.key = key /\ f.phase = "http" /\ f.p = ev'.p

\* a key whose next read would start a fetch stays so until that read is issued
UpstreamUntilRead(key) ==
    Route(key) = "fetch" => ((Route(key))' = "fetch" \/ started'[key] = started[key] + 1)

\* C1: Coalescing.  A read of a key that is not live in the store, issued while
\* a fetch of that key is outstanding, issues no HTTP call and creates no promise:
\* it awaits the promise of the outstanding fetch.  So all reads that wait for a
\* key wait on one promise, one fetch (one upstream call with its retries) exists
\* for it, and when it settles every one of them gets the same outcome: the same
\* value, or the same failure.
C1_Coalescing ==
    [][ /\ \A req \in Requests :
               (/\ Read(req)
                /\ ~Live(cache, KeyOf(req), now)
                /\ Outstanding(KeyOf(req)) # {}) =>
                   /\ UNCHANGED <<fetches, started, inFlight, call>>
                   /\ \E f \in Outstanding(KeyOf(req)) :
                          ev'.p = f.p /\ (\E w \in waiting' \ waiting : w.p = f.p)
        /\ \A w1 \in waiting', w2 \in waiting' : w1.p[1] = w2.p[1] => w1.p = w2.p
        /\ \A w \in waiting' : { f.p : f \in { g \in fetches' : g.key = w.p[1] } } = {w.p}
        /\ \A f \in fetches :
               Settle(f) =>
                   /\ Cardinality(ev'.got) = Cardinality({ w \in waiting : w.p = f.p })
                   /\ \A g1 \in ev'.got, g2 \in ev'.got : g1.outcome = g2.outcome
                   /\ \A w \in waiting' : w.p # f.p
      ]_vars

\* two reads of one key have been served by one fetch
C1_Witness == ev.type = "settle" /\ Cardinality(ev.got) >= 2

C3_CacheHit ==
    [][ \A req \in Requests :
            (/\ Read(req)
             /\ MapHas(cache, KeyOf(req))
             /\ now < MapGet(cache, KeyOf(req)).expires) =>
                /\ UNCHANGED <<fetches, started, inFlight, waiting, cache, call>>
                /\ ev'.via = "hit"
                /\ ev'.value = MapGet(cache, KeyOf(req)).value
      ]_vars

\* a read some time after the store, served from the store, one fetch in all
C3_Witness ==
    /\ ev.type = "read"
    /\ ev.via = "hit"
    /\ now > 0
    /\ started[KeyOf(ev.req)] = 1

\* C4, as stated: no read issued after an invalidation that covers it returns a
\* value fetched by an HTTP request that started before the command completed.
\* (ev.inv / g.inv: invalidations run when the read was issued; began: commands
\* completed when the GET that fetched the value was issued.)
C4_NoPreCommandData ==
    /\ (ev.type = "read" /\ ev.via = "hit") => ev.value.began >= ev.inv
    /\ ev.type = "settle" =>
           \A g \in ev.got : g.outcome.ok => g.outcome.value.began >= g.inv

\* C4, amended: no read issued after an invalidation that covers it is served
\* a cache entry that was stored before that invalidation ran: every entry in
\* the store was stored after the last invalidation that covers its key.
C4_NoEntryFromBeforeInvalidation ==
    /\ \A i \in 1..Len(cache) :
           \A req \in Requests :
               KeyOf(req) = cache[i].key => cache[i].storedInv = InvalidationsRun(req)
    /\ (ev.type = "read" /\ ev.via = "hit") =>
           MapGet(cache, KeyOf(ev.req)).storedInv = ev.inv

\* a read issued after an invalidation has been served from the store
C4_Witness == ev.type = "read" /\ ev.via = "hit" /\ ev.inv >= 1

\* C5: End-to-end invalidation.  When sendCommand for a VIN completes
\* successfully (its invalidation runs) while a read of that VIN has completed
\* and its entry is in the store and not expired, the next read of that VIN
\* starts a fetch: it is not served the entry.  In steps: right after the
\* invalidation the key is one whose next read starts a fetch; it stays so until
\* that read is issued; and that read issues an HTTP GET.
C5_EndToEndInvalidation ==
    [][ /\ \A c \in 1..Len(cmds) : \A req \in Requests :
               (/\ Invalidate(c)
                /\ req.vin = cmds[c].vin
                /\ Live(cache, KeyOf(req), now)
                /\ Pending(KeyOf(req)) = <<>>) =>
                   (Route(KeyOf(req)))' = "fetch"
        /\ \A req \in Requests : req.vin \in Commanded => UpstreamUntilRead(KeyOf(req))
        /\ \A req \in Requests : req.vin \in Commanded => ReadGoesUpstream(req)
      ]_vars

\* read, cached, command, and the next read has started the key's second fetch
\* before any time has passed
C5_Witness ==
    /\ ev.type = "read"
    /\ ev.via = "fetch"
    /\ ev.req.vin = V1
    /\ started[KeyOf(ev.req)] = 2
    /\ inv[V1] = 1
    /\ nfails = 0
    /\ now = 0

\* C6: Invalidation exactness.  invalidateVin(v) removes exactly the entries of
\* the roster (first segment "vehicles") and of the reads of v (second segment
\* v), and leaves every other entry as it was and where it was; the entry of
\* V12, of which the invalidated V1 is a proper prefix, stays.
C6_InvalidationExact ==
    [][ \A c \in 1..Len(cmds) :
            Invalidate(c) =>
                LET v == cmds[c].vin
                    gone == { KeyOf(req) : req \in { r \in Requests : Scoped(r, v) } }
                    Stays(e) == e.key \notin gone
                    other == KeyOf([op |-> "getVehicleState", vin |-> V12])
                IN  /\ cache' = SelectSeq(cache, Stays)
                    /\ \A k \in MapKeys(cache) :
                           k \notin MapKeys(cache') <=>
                               \/ Split(k)[1] = <<"vehicles">>
                               \/ Split(k)[2] = v
                    /\ (v = V1 /\ MapHas(cache, other)) =>
                           (MapHas(cache', other) /\ MapGet(cache', other) = MapGet(cache, other))
      ]_vars

\* invalidateVin(V1) has removed the entry of V1 and kept the entry of V12
C6_Witness ==
    /\ ev.type = "invalidate"
    /\ ev.vin = V1
    /\ KeyOf([op |-> "getVehicleState", vin |-> V1]) \in ev.removed
    /\ MapHas(cache, KeyOf([op |-> "getVehicleState", vin |-> V12]))

\* C7: TTL expiry with jitter J = JitterNum / JitterDen = 0.10.  For an entry
\* stored at time t (touched) with nominal TTL ttl that is still in the store:
\* a read of its key later than t + ttl * (1 + J) is never served from the
\* store: it awaits an HTTP call made after the entry expired, starting the
\* fetch itself unless another read has already started it; a read earlier than
\* t + ttl * (1 - J) is served from the store and starts nothing.
C7_TtlJitter ==
    [][ \A req \in Requests :
            LET key == KeyOf(req)
                e == MapGet(cache, key)
                age == now - e.touched
                ttl == TtlOf(req)
            IN  (Read(req) /\ MapHas(cache, key)) =>
                    /\ (JitterDen * age > ttl * (JitterDen + JitterNum)) =>
                           /\ ev'.via # "hit"
                           /\ \E f \in fetches' :
                                  f.p = ev'.p /\ f.phase = "http" /\ f.key = key
                           /\ Pending(key) = <<>> => started'[key] = started[key] + 1
                    /\ (JitterDen * age < ttl * (JitterDen - JitterNum)) =>
                           /\ ev'.via = "hit"
                           /\ UNCHANGED <<fetches, started, inFlight, call>>
      ]_vars

\* a read later than t + ttl * (1 + J), its expired entry still in the store,
\* has started a fetch
C7_Witness ==
    /\ ev.type = "read"
    /\ ev.via = "fetch"
    /\ MapHas(cache, KeyOf(ev.req))
    /\ JitterDen * (now - MapGet(cache, KeyOf(ev.req)).touched)
           > TtlOf(ev.req) * (JitterDen + JitterNum)

\* C8, as stated: in every reachable state the store holds no entry whose
\* expires is less than or equal to the current time.
C8_NoExpiredEntry == \A i \in 1..Len(cache) : cache[i].expires > now

\* C8, amended: no cached value is served past its expiry, and none is kept
\* past a pruning pass: a read is served from the store only while expires > now,
\* and right after every store (pruneCache runs in the same step) the store
\* holds no entry with expires <= now.
C8_NoExpiredServedOrLeftByPrune ==
    /\ (ev.type = "read" /\ ev.via = "hit") =>
           MapGet(cache, KeyOf(ev.req)).expires > now
    /\ ev.type = "store" => \A i \in 1..Len(cache) : cache[i].expires > now

\* a store whose pruning pass has dropped an expired entry of another key
C8_Witness == ev.type = "store" /\ ev.expired # {}

\* C9: Size bound.  In every state (every state is a suspension point) the
\* store holds at most maxCacheSize entries.
C9_SizeBound == Len(cache) <= maxCacheSize

\* a store into a full store has evicted, and the store is full again
C9_Witness ==
    /\ ev.type = "store"
    /\ ev.evicted # {}
    /\ maxCacheSize >= 1
    /\ Len(cache) = maxCacheSize

\* C10: Size-bound eviction order.  When a successful fetch stores a new key
\* into a store that holds N = maxCacheSize entries, none of them expired,
\* exactly N entries remain, exactly one entry is removed, it is one with the
\* least touched of all, the others stay as they were, and the removed key is
\* no longer served from the store: its next read, once the promise that had
\* cached it has left the in-flight map, starts a fetch.
C10_EvictionOrder ==
    [][ /\ \A f \in fetches : \A r \in Randoms :
               (/\ HttpOk(f, r)
                /\ ~MapHas(cache, f.key)
                /\ Len(cache) = maxCacheSize
                /\ \A i \in 1..Len(cache) : cache[i].expires > now) =>
                   LET gone == (MapKeys(cache) \cup {f.key}) \ MapKeys(cache')
                       TouchedOf(k) == IF k = f.key THEN now ELSE MapGet(cache, k).touched
                   IN  /\ Len(cache') = maxCacheSize
                       /\ Cardinality(gone) = 1
                       /\ \A k \in gone : \A i \in 1..Len(cache') :
                              TouchedOf(k) <= cache'[i].touched
                       /\ \A i \in 1..Len(cache') :
                              cache'[i].key # f.key => MapGet(cache, cache'[i].key) = cache'[i]
                       /\ \A k \in gone :
                              /\ (Route(k))' # "hit"
                              /\ (Pending(k))' = <<>> => (Route(k))' = "fetch"
        /\ \A req \in Requests : UpstreamUntilRead(KeyOf(req))
        /\ \A req \in Requests : ReadGoesUpstream(req)
      ]_vars

\* a key that was evicted from a full store has been read again, before any
\* entry could expire, and its second fetch has started
C10_Witness ==
    /\ ev.type = "read"
    /\ ev.via = "fetch"
    /\ started[KeyOf(ev.req)] = 2
    /\ maxCacheSize >= 1
    /\ Len(cache) = maxCacheSize
    /\ now = 0

\* the fetch that promise p belongs to, after a step
After(p) == CHOOSE g \in fetches' : g.p = p

\* C11: Retry/backoff schedule of withRetry.  A call that fails with a retriable
\* status (429 or >= 500) as the i-th call, i < maxRetries, is followed by a
\* wait of baseDelayMs * 2^(i-1): 500 ms after the first call, 1000 ms after the
\* second; the next call is made when that wait is over and not before; a call
\* that succeeds after k failures is the (k+1)-th call, no call follows it, and
\* every reader gets its value.
C11_RetrySchedule ==
    [][ /\ \A f \in fetches : \A s \in RetryStatuses :
               (/\ HttpFail(f, s)
                /\ (s = 429 \/ s >= 500)
                /\ f.calls < maxRetries) =>
                   /\ After(f.p).phase = "backoff"
                   /\ After(f.p).calls = f.calls
                   /\ After(f.p).due - now = IF f.calls = 1 THEN 500 ELSE 1000
        /\ \A f \in fetches :
               RetryGet(f) =>
                   /\ now >= f.due
                   /\ After(f.p).phase = "http"
                   /\ After(f.p).calls = f.calls + 1
        /\ \A f \in fetches : \A r \in Randoms :
               HttpOk(f, r) =>
                   /\ f.calls = f.attempt + 1
                   /\ f.calls <= maxRetries
                   /\ After(f.p).phase = "resolved"
                   /\ After(f.p).calls = f.calls
        /\ \A f \in fetches :
               (Settle(f) /\ f.phase = "resolved") =>
                   \A g \in ev'.got : g.outcome = [ok |-> TRUE, value |-> ValueOf(f)]
        /\ \A f \in fetches :
               (f.phase \in {"resolved", "rejected"} /\ f.p \in { g.p : g \in fetches' }) =>
                   After(f.p) = f
      ]_vars

\* two failures, waits of 500 ms and 1000 ms, and the third call has succeeded
C11_Witness ==
    \E f \in fetches :
        f.phase = "resolved" /\ f.attempt = 2 /\ f.calls = 3 /\ now = 1500

\* C12: Non-retriable short-circuit.  A call that fails with 401, 403 or 404
\* ends withRetry at once: no wait, no further call (one call in all when it
\* was the first), and the readers get a descriptor with that status and
\* retriable = false.
C12_NonRetriableShortCircuit ==
    [][ /\ \A f \in fetches : \A s \in {401, 403, 404} :
               HttpFail(f, s) =>
                   /\ After(f.p).phase = "rejected"
                   /\ After(f.p).calls = f.calls
                   /\ After(f.p).out = s
                   /\ now' = now
        /\ \A f \in fetches :
               (Settle(f) /\ f.phase = "rejected" /\ f.out \in {401, 403, 404}) =>
                   /\ ev'.got # {}
                   /\ \A g \in ev'.got :
                          g.outcome = [ok |-> FALSE,
                                       error |-> [status |-> f.out, retriable |-> FALSE]]
        /\ \A f \in fetches :
               (f.phase = "rejected" /\ f.p \in { g.p : g \in fetches' }) => After(f.p) = f
      ]_vars

\* a read has been rejected with 404 after one call and no wait
C12_Witness ==
    /\ ev.type = "settle"
    /\ now = 0
    /\ started[KeyOf(ev.req)] = 1
    /\ nfails = 1
    /\ \E g \in ev.got : ~g.outcome.ok /\ g.outcome.error.status = 404

\* C13, as stated: whenever withRetry rejects after fewer than maxRetries
\* attempts, the descriptor it rejects with has retriable = false.
C13_EarlyRejectionIsNotRetriable ==
    \A f \in fetches :
        (f.phase = "rejected" /\ f.attempt < maxRetries) =>
            ~toMcpError(f.err = "axios", f.out).retriable

\* C14: Failed fetches are not cached.  No step of a fetch that ends in a
\* rejection changes the store: not the read that starts it, not a failed HTTP
\* call, not a retry, not the delivery of the rejection; and the rejection is
\* delivered, as one and the same descriptor, to every read that awaited the
\* fetch.
C14_FailureNotCached ==
    [][ /\ \A req \in Requests : Read(req) => cache' = cache
        /\ \A f \in fetches : \A s \in RetryStatuses : HttpFail(f, s) => cache' = cache
        /\ \A f \in fetches : RetryGet(f) => cache' = cache
        /\ \A f \in fetches :
               (Settle(f) /\ f.phase = "rejected") =>
                   /\ cache' = cache
                   /\ ~MapHas(cache', f.key) \/ MapGet(cache', f.key).value.p # f.p
                   /\ Cardinality(ev'.got) = Cardinality({ w \in waiting : w.p = f.p })
                   /\ \A g \in ev'.got :
                          g.outcome = [ok |-> FALSE,
                                       error |-> toMcpError(f.err = "axios", f.out)]
                   /\ \A w \in waiting' : w.p # f.p
      ]_vars

\* two reads of one key have both been rejected with 503 after the retries
\* were used up, and the store is empty
C14_Witness ==
    /\ ev.type = "settle"
    /\ Cardinality(ev.got) = 2
    /\ \A g \in ev.got : ~g.outcome.ok /\ g.outcome.error.status = 503
    /\ cache = <<>>

C16_UnknownFormatIsHardFailure ==
    [][\A f \in fetches :
         /\ \A data \in Bodies, r \in DriveRandoms :
               LET nonNullObjects ==
                       \A i \in 1..Len(data.items) : data.items[i] \in {"object", "array"}
                   known == \/ data.shape = "array"
                            \/ data.shape = "object" /\ data.results = "array" /\ nonNullObjects
               IN  (~known /\ HttpReply(f, data, r)) =>
                       /\ After(f.p).phase = "rejected"
                       /\ f.calls = 1 /\ After(f.p).calls = 1
                       /\ ~toMcpError(After(f.p).err = "axios", After(f.p).out).retriable
                       /\ cache' = cache
         /\ (f.phase = "rejected" /\ f.err = "error" /\ Settle(f)) =>
               /\ \A g \in ev'.got : ~g.outcome.ok /\ ~g.outcome.error.retriable
               /\ cache' = cache
               /\ (Pending(f.key))' = <<>>
               /\ ~MapHas(cache', f.key) => (Route(f.key))' = "fetch"
      ]_vars

\* a read of a key whose only fetch failed on the response format has started
\* the second upstream call for the key, and nothing is cached
C16_Witness ==
    /\ ev.type = "read" /\ ev.via = "fetch"
    /\ ev.req.op \in ShapeChecked
    /\ started[KeyOf(ev.req)] = 2
    /\ nfails = 1
    /\ cache = <<>>
    /\ \A f \in fetches : f.key = KeyOf(ev.req) /\ f.phase = "http"

\* C17: the GET of every getDrives call carries limit = min(100, max(1, limit))
\* for the limit it was given (1000 gives 100, 0 and -5 give 1) and carries no
\* limit when none was given; no limit makes the call fail: a getDrives fetch
\* is rejected only by what came back for the one GET it has issued.
C17_DriveLimitClamped ==
    \A f \in fetches :
        f.req.op = "getDrives" =>
            LET limit == Prop(f.req.options, "limit")
                sent == { q \in f.params : q[1] = "limit" }
                inner == IF limit.n > 1 THEN limit.n ELSE 1
                clamped == IF inner < 100 THEN inner ELSE 100
            IN  /\ limit = Undefined => sent = {}
                /\ limit # Undefined => sent = { <<"limit", <<ToString(clamped)>> >> }
                /\ limit = Num(1000) => sent = { <<"limit", <<"100">> >> }
                /\ limit \in {Num(0), Num(-5)} => sent = { <<"limit", <<"1">> >> }
                /\ f.phase = "rejected" => f.calls = 1 /\ f.err = "error"

\* GETs are out for a limit above the range and for one below it
C17_Witness ==
    \E f, g \in fetches :
        /\ f.phase = "http" /\ g.phase = "http"
        /\ f.req.op = "getDrives" /\ Prop(f.req.options, "limit") = Num(1000)
        /\ <<"limit", <<"100">> >> \in f.params
        /\ g.req.op = "getDrives" /\ Prop(g.req.options, "limit") = Num(-5)
        /\ <<"limit", <<"1">> >> \in g.params

\* the key-value pairs a request's parameter object holds
PairsOf(req) ==
    IF req.op \in {"getDrives", "getHistoricalStates"}
    THEN { <<req.options[i].k, req.options[i].v>> : i \in 1..Len(req.options) }
    ELSE {}

\* the same operation on the same vehicle with the same key-value pairs,
\* in whatever insertion order
SamePairs(r1, r2) == r1.op = r2.op /\ r1.vin = r2.vin /\ PairsOf(r1) = PairsOf(r2)

\* C18: the key a read built is the key built again from the same request, and
\* is the key of every request of the same operation and VIN whose parameter
\* object holds the same key-value pairs in another insertion order; so two
\* such reads never have an upstream call each in flight.
C18_KeyCanonical ==
    /\ \A f \in fetches :
          /\ f.key = KeyOf(f.req)
          /\ \A r \in DriveRequests : SamePairs(r, f.req) => KeyOf(r) = f.key
    /\ \A f, g \in fetches :
          (SamePairs(f.req, g.req) /\ f.phase = "http" /\ g.phase = "http") => f = g

\* a read has joined the fetch that a read with the same pairs in the other
\* insertion order started
C18_Witness ==
    /\ ev.type = "read" /\ ev.via = "join"
    /\ \E f \in fetches :
          /\ f.p = ev.p
          /\ f.req # ev.req
          /\ f.req.options # SortedEntries(f.req.options)
          /\ SamePairs(f.req, ev.req)

\* the same logical request: the same operation on the same vehicle with the
\* same parameter values (a property left undefined is no parameter)
SameLogical(r1, r2) ==
    /\ r1.op = r2.op /\ r1.vin = r2.vin
    /\ { q \in PairsOf(r1) : q[2] # Undefined } = { q \in PairsOf(r2) : q[2] # Undefined }

\* the key of each request, as its read method builds it
KeyTable == [r \in DriveRequests |-> KeyOf(r)]

C20_ClampedLimitsShareKey ==
    LET sameOutgoing(r1, r2) ==
            /\ r1.op = "getDrives" /\ r2.op = "getDrives" /\ r1.vin = r2.vin
            /\ Prop(r1.options, "start") = Prop(r2.options, "start")
            /\ Prop(r1.options, "end") = Prop(r2.options, "end")
            /\ ParamsOf(r1) = ParamsOf(r2)
    IN  /\ \A f, g \in fetches : sameOutgoing(f.req, g.req) => f.key = g.key
        /\ (ev.type = "read" /\ ev.via = "fetch") =>
              \A k \in MapKeys(cache) :
                  ~(Live(cache, k, now) /\ sameOutgoing(MapGet(cache, k).value.req, ev.req))

\* the texts a descriptor holds, at any depth
TextsOf(d) ==
    {d.message, d.details.context}
    \cup (IF "suggestion" \in DOMAIN d THEN {d.suggestion} ELSE {})
    \cup (IF "request" \in DOMAIN d.details
          THEN { d.details.request[n] : n \in DOMAIN d.details.request \ {"headers"} }
               \cup (IF "headers" \in DOMAIN d.details.request
                     THEN { d.details.request.headers[h] : h \in DOMAIN d.details.request.headers }
                     ELSE {})
               \cup {d.details.statusText}
          ELSE {})

\* C21: the descriptor of an axios error holds, of the request, its url and
\* its method and nothing else; no text in it is the Authorization header of
\* the request; and an error that differs from the one caught in its request
\* headers only gets the same descriptor.
C21_NoCredentialInDescriptor ==
    (ev.type = "caught" /\ ev.error.kind = "axios") =>
        /\ DOMAIN ev.descriptor.details.request = {"url", "method"}
        /\ ev.descriptor.details.request = [url |-> ev.error.url, method |-> ev.error.method]
        /\ ev.error.authorization \notin TextsOf(ev.descriptor)
        /\ \A other \in AxiosErrors :
              [other EXCEPT !.authorization = ev.error.authorization] = ev.error
                  => McpError(other, ev.context) = ev.descriptor

\* the throttled request of the test, with a token in its headers, was caught
C21_Witness ==
    /\ ev.type = "caught" /\ ev.error.kind = "axios"
    /\ ev.error.status = 429 /\ ev.error.authorization = "token-1"
    /\ ev.descriptor.details.request = [url |-> "/vehicles", method |-> "get"]

\* C23: the descriptor of an HTTP error with a status says retriable = true
\* for 429, for 408 and for every status from 500 on, and false for 401, 403
\* and 404; the descriptor of an Error that is no HTTP error says
\* retriable = false and carries the error's message and the context.
C23_DescriptorRetriability ==
    ev.type = "caught" =>
        /\ (ev.error.kind = "axios" /\ ev.error.status # 0) =>
              /\ (ev.error.status \in {429, 408} \/ ev.error.status >= 500)
                    => ev.descriptor.retriable
              /\ ev.error.status \in {401, 403, 404} => ~ev.descriptor.retriable
        /\ ev.error.kind = "error" =>
              /\ ~ev.descriptor.retriable
              /\ ev.descriptor.message = ev.error.message
              /\ ev.descriptor.details.context = ev.context

\* C24: a call of manage_vehicle_command for an operation other than
\* flash_lights, honk and wake whose params.confirm is not exactly true (false,
\* or missing) issues no POST and returns an error payload whose message
\* says that confirmation is required.
C24_ConfirmationGate ==
    [][\A input \in ToolInputs :
         (/\ ManageVehicleCommand(input)
          /\ input.operation \notin {"flash_lights", "honk", "wake"}
          /\ input.params.confirm # Bool(TRUE)) =>
             /\ cmds' = cmds
             /\ ev'.type = "tool" /\ ev'.input = input
             /\ ev'.payload.isError
             /\ ev'.payload.message = <<"Confirmation required for this operation.">>
      ]_vars

\* lock was asked for with confirm: false and answered with the error payload,
\* and no command has been dispatched
C24_Witness ==
    /\ ev.type = "tool"
    /\ ev.input.operation = "lock" /\ ev.input.params.confirm = Bool(FALSE)
    /\ ev.payload.message = <<"Confirmation required for this operation.">>
    /\ cmds = <<>>

\* the parameter of a tool call that is missing or out of range, as the
\* claim lists them ("": none)
BadParameter(input) ==
    LET q == input.params
        outside(v, lo, hi) == v = Undefined \/ v.n < lo \/ v.n > hi
    IN  CASE input.operation = "set_charge_limit" /\ outside(q.charge_limit_percent, 1, 100)
               -> "charge_limit_percent"
          [] input.operation = "set_seat_heating" /\ q.seat_position # Undefined
             /\ outside(q.seat_level, 0, 3)
               -> "seat_level"
          [] input.operation = "set_cabin_overheat_protection_temp"
             /\ outside(q.cabin_overheat_temp_c, 15, 60)
               -> "cabin_overheat_temp_c"
          [] input.operation = "enable_speed_limit" /\ q.speed_limit_pin \in {Undefined, Str(<<>>)}
               -> "speed_limit_pin"
          [] OTHER -> ""

\* C25 as stated: every answer to a tool call with a missing or out-of-range
\* parameter is an error payload that names the parameter.
C25_InvalidParameterNamed ==
    (ev.type = "tool" /\ BadParameter(ev.input) # "") =>
        /\ ev.payload.isError
        /\ ev.payload.message = <<"Missing or invalid", BadParameter(ev.input)>>

\* C25, amended: a tool call with a missing or out-of-range parameter never
\* invokes client.sendCommand and is answered in the same step with an error
\* payload, not retriable when it comes from the validation; the payload names
\* the parameter when params.confirm is true, and asks for confirmation
\* without naming it otherwise.
C25_InvalidParameterNoCall ==
    [][\A input \in ToolInputs :
         (ManageVehicleCommand(input) /\ BadParameter(input) # "") =>
             /\ cmds' = cmds
             /\ ev'.type = "tool" /\ ev'.input = input
             /\ ev'.payload.isError
             /\ IF input.params.confirm = Bool(TRUE)
                THEN /\ ev'.payload.message = <<"Missing or invalid", BadParameter(input)>>
                     /\ ~ev'.payload.retriable
                ELSE ev'.payload.message = <<"Confirmation required for this operation.">>
      ]_vars

\* a confirmed set_charge_limit above the range was answered with the payload
\* that names charge_limit_percent, and no command has been dispatched
C25_Witness ==
    /\ ev.type = "tool"
    /\ ev.input.operation = "set_charge_limit"
    /\ ev.input.params.confirm = Bool(TRUE)
    /\ ev.input.params.charge_limit_percent = Num(101)
    /\ ev.payload.message = <<"Missing or invalid", "charge_limit_percent">>
    /\ cmds = <<>>
(* ErrorHandler.classifyError *)

\* the kind of a classification in the words of the classification table
KindOf(e) ==
    CASE e.type = "AUTHENTICATION_ERROR" -> "AUTHENTICATION"
      [] e.type = "RATE_LIMIT_ERROR" -> "RATE_LIMIT"
      [] e.type = "TIMEOUT_ERROR" -> "TIMEOUT"
      [] e.type = "NETWORK_ERROR" -> "NETWORK"
      [] e.type = "VEHICLE_ASLEEP_ERROR" -> "VEHICLE_ASLEEP"
      [] e.type = "VEHICLE_OFFLINE_ERROR" -> "VEHICLE_OFFLINE"
      [] e.type = "API_ERROR" /\ e.message = "Resource not found" -> "NOT_FOUND"
      [] e.type = "API_ERROR" /\ e.message = "Server error" -> "SERVER_ERROR"
      [] e.type = "API_ERROR" -> "GENERIC_API_ERROR"
      [] OTHER -> "UNKNOWN"

\* the row of the classification table for an error
TableRow(error) ==
    CASE error.status \in {401, 403} -> <<"AUTHENTICATION", FALSE>>
      [] error.status = 404 -> <<"NOT_FOUND", FALSE>>
      [] error.status = 429 -> <<"RATE_LIMIT", TRUE>>
      [] error.status \in {500, 502, 503, 504} -> <<"SERVER_ERROR", TRUE>>
      [] error.status = 408 -> <<"TIMEOUT", TRUE>>
      [] error.code \in {"ECONNABORTED", "ETIMEDOUT"} -> <<"TIMEOUT", TRUE>>
      [] error.code \in {"ENOTFOUND", "ECONNREFUSED"} -> <<"NETWORK", TRUE>>
      [] OTHER -> <<"GENERIC_API_ERROR", error.status >= 500>>

\* withRetry has classified a failure of the call: call.raw is the error
\* thrown by the GET and call.lastError its classification
Classified == call.phase = "sleep" \/ call.outcome \in {"degraded", "thrown"}

\* C22 (as stated): the classification of an error with a response status is
\* the row of the table for its status (401/403 authentication, 404 not
\* found, 429 rate limit, 500/502/503/504 server error, 408 or a timeout code
\* timeout, a DNS/refused code network, any other status generic and
\* retriable iff status >= 500), and an error with no status is UNKNOWN and
\* not retriable.
C22_StatusTable ==
    Classified =>
        IF call.raw.status # 0
        THEN <<KindOf(call.lastError), call.lastError.retryable>> = TableRow(call.raw)
        ELSE KindOf(call.lastError) = "UNKNOWN" /\ ~call.lastError.retryable

\* C22 (amended): an error that is no AxiosError is UNKNOWN and not
\* retriable; an AxiosError whose response carries an error text that
\* includes "asleep" or "sleeping" is VEHICLE_ASLEEP and retriable whatever
\* its status, one whose text includes "offline" or "not connected" is
\* VEHICLE_OFFLINE and not retriable; every other AxiosError, with or without
\* a response, is classified by the row of the table for its status and code.
C22_StatusTableUnlessVehicleText ==
    Classified =>
        <<KindOf(call.lastError), call.lastError.retryable>> =
            CASE call.raw.kind # "axios" -> <<"UNKNOWN", FALSE>>
              [] call.raw.kind = "axios" /\ call.raw.data \cap {"asleep", "sleeping"} # {} ->
                   <<"VEHICLE_ASLEEP", TRUE>>
              [] call.raw.kind = "axios" /\ call.raw.data \cap {"asleep", "sleeping"} = {}
                 /\ call.raw.data \cap {"offline", "not connected"} # {} ->
                   <<"VEHICLE_OFFLINE", FALSE>>
              [] OTHER -> TableRow(call.raw)

\* a 401 whose error text says that the vehicle is asleep has been
\* classified as VEHICLE_ASLEEP, retriable
C22_Witness ==
    /\ Classified
    /\ call.raw.status = 401
    /\ call.raw.data = {"asleep"}
    /\ call.lastError.type = "VEHICLE_ASLEEP_ERROR"
    /\ call.lastError.retryable

(* get_vehicle_current_state and ErrorHandler.withRetry *)

\* C26: when the vehicle-state fetch behind get_vehicle_current_state has
\* ultimately failed with an error classified as VEHICLE_ASLEEP,
\* VEHICLE_OFFLINE, RATE_LIMIT or TIMEOUT, the tool has returned the degraded
\* fallback response carrying that error type instead of throwing.
C26_GracefulDegradation ==
    (call.outcome \in {"degraded", "thrown"} /\ shouldDegrade(call.lastError)) =>
        /\ call.outcome = "degraded"
        /\ call.enhancedError.type = call.lastError.type

\* C27: withRetry retries every failure whose classification has retryable =
\* TRUE while attempts remain, and gives up with attempts remaining only when
\* the classification has retryable = FALSE.
C27_RetryFollowsClassification ==
    Classified =>
        (call.phase = "sleep" <=>
            (call.lastError.retryable /\ call.attempt < call.config.maxRetries))

(* sanitizeMetaDeep *)

RECURSIVE KeysIn(_)
\* the keys of a result at every depth
KeysIn(out) ==
    UNION ({ {e[1]} \cup KeysIn(e[2]) : e \in out.entries }
           \cup { KeysIn(out.items[i]) : i \in 1 .. Len(out.items) })

RECURSIVE MarkersIn(_)
\* there is a "[Circular]" marker in the result
MarkersIn(out) ==
    \/ out = OutCircular
    \/ \E e \in out.entries : MarkersIn(e[2])
    \/ \E i \in 1 .. Len(out.items) : MarkersIn(out.items[i])

\* object a holds a reference to object b under a key that is not sensitive,
\* or as an item
RefersTo(heap, a, b) ==
    \/ \E i \in 1 .. Len(MetaKeys) :
          heap[a].fields[i] = MetaRef(b) /\ toLowerCase(MetaKeys[i]) \notin SENSITIVE_KEYS
    \/ \E i \in 1 .. Len(heap[a].items) : heap[a].items[i] = MetaRef(b)

RECURSIVE ReachableIn(_, _, _)
\* the objects reached from the objects of from in at most steps references
ReachableIn(heap, from, steps) ==
    IF steps = 0 THEN from
    ELSE ReachableIn(heap,
                     from \cup {b \in MetaRefs : \E a \in from : RefersTo(heap, a, b)},
                     steps - 1)

\* the logged value contains a cyclic reference that is not dropped with a
\* sensitive key: an object reached from it reaches itself
Cyclic(heap) ==
    \E a \in ReachableIn(heap, {1}, MetaNodes) :
        a \in ReachableIn(heap, {b \in MetaRefs : RefersTo(heap, a, b)}, MetaNodes)

\* C28: sanitizeMetaDeep returns a result for every value, also for objects
\* and arrays with cyclic references, the result of a value with a cyclic
\* reference holds the "[Circular]" marker, and no key of the result at any
\* depth is, in lower case, one of the sensitive keys.
C28_SanitizeTerminatesAndStrips ==
    ev.type = "sanitized" =>
        /\ ev.safeMeta # RangeError
        /\ Cyclic(ev.heap) => MarkersIn(ev.safeMeta)
        /\ \A key \in KeysIn(ev.safeMeta) : toLowerCase(key) \notin SENSITIVE_KEYS

(* The cache store and the in-flight map *)

\* C29 (as stated): in no state does the cache store hold an entry for a key
\* while an in-flight request for that key is outstanding.
C29_CachedExcludesInFlight ==
    \A key \in MapKeys(cache) : Pending(key) = <<>>

\* C29 (amended): while the request in flight for a key has not got its
\* result yet, the cache store holds no live entry for the key: it holds none
\* at all, or one that has expired and has not been pruned.
C29_NoLiveEntryWhileFetching ==
    \A f \in fetches :
        (f.phase \in {"http", "backoff"} /\ Pending(f.key) = f.p) =>
            ~Live(cache, f.key, now)

\* an entry that has expired is still in the store while a new request for
\* its key is in flight
C29_Witness ==
    \E f \in fetches :
        /\ f.phase = "http"
        /\ Pending(f.key) = f.p
        /\ f.key \in MapKeys(cache)
        /\ MapGet(cache, f.key).expires <= now

(* The lifecycle of a cache key *)

\* where a key is in its lifecycle: CACHED with an entry that a read returns,
\* FETCHING while a request for it has not got its result, EXPIRED with an
\* entry that is past its time and still in the store, EMPTY otherwise
Phase(key) ==
    IF Live(cache, key, now) THEN "CACHED"
    ELSE IF \E f \in fetches : f.key = key /\ f.phase \in {"http", "backoff", "rejected"}
    THEN "FETCHING"
    ELSE IF MapHas(cache, key) THEN "EXPIRED"
    ELSE "EMPTY"

\* the steps of the lifecycle as stated
LifecycleStrict ==
    { <<"EMPTY", "FETCHING">>, <<"FETCHING", "CACHED">>, <<"FETCHING", "EMPTY">>,
      <<"CACHED", "EXPIRED">>, <<"CACHED", "EMPTY">>, <<"EXPIRED", "EMPTY">> }

\* C30 (as stated): a key only moves EMPTY -> FETCHING -> CACHED ->
\* (EXPIRED | EVICTED | INVALIDATED) -> EMPTY, and FETCHING -> EMPTY.
C30_LifecycleStrict ==
    [][\A key \in Keys :
          Phase(key)' # Phase(key) => <<Phase(key), Phase(key)'>> \in LifecycleStrict]_vars

\* the steps the client takes: an expired entry stays in the store, so a
\* read moves its key from EXPIRED to FETCHING, and a fetch that fails moves it
\* back to EXPIRED
Lifecycle ==
    LifecycleStrict \cup { <<"EXPIRED", "FETCHING">>, <<"FETCHING", "EXPIRED">> }

\* C30 (amended): a key only moves EMPTY -> FETCHING -> CACHED -> (EXPIRED |
\* EMPTY), from EXPIRED to EMPTY or straight to FETCHING, and from FETCHING
\* back to EMPTY or EXPIRED; a key becomes CACHED only from FETCHING, and it
\* leaves CACHED only by expiry, by an eviction or by an invalidation.
C30_Lifecycle ==
    [][\A key \in Keys :
          Phase(key)' # Phase(key) =>
              /\ <<Phase(key), Phase(key)'>> \in Lifecycle
              /\ Phase(key) = "CACHED" =>
                    \/ Phase(key)' = "EXPIRED" /\ now' > now
                    \/ ev'.type = "store" /\ key \in ev'.evicted
                    \/ ev'.type = "invalidate" /\ key \in ev'.removed]_vars

\* a key whose entry has expired is being fetched for the second time, its
\* old entry still in the store
C30_Witness ==
    \E key \in Keys :
        /\ Phase(key) = "FETCHING"
        /\ MapHas(cache, key)
        /\ started[key] = 2

(* sendCommand *)

\* C31: commands are never cached or coalesced: a sendCommand call adds no
\* entry to the cache store and none to the in-flight map and starts no
\* fetch, every call issues a POST of its own, also while another command
\* for the same vehicle is under way and after one has finished, and no step
\* of a command adds an entry to the store or to the in-flight map.
C31_CommandsNotCachedNorCoalesced ==
    [][/\ cmds' # cmds =>
            /\ MapKeys(cache') \subseteq MapKeys(cache)
            /\ inFlight' = inFlight
            /\ fetches' = fetches
       /\ ev'.type = "command" =>
            /\ Len(cmds') = Len(cmds) + 1
            /\ SubSeq(cmds', 1, Len(cmds)) = cmds
            /\ cmds'[Len(cmds')].vin = ev'.vin
            /\ cmds'[Len(cmds')].phase = "http"
            /\ cmds'[Len(cmds')].calls = 1
            /\ cache' = cache]_vars

\* a second command for a vehicle has been sent while the POST of the first
\* was outstanding, and both POSTs are outstanding
C31_Witness ==
    /\ ev.type = "command"
    /\ Len(cmds) = 2
    /\ cmds[1].vin = cmds[2].vin
    /\ cmds[1].phase = "http"
    /\ cmds[2].phase = "http"

\* C32: sendCommand invalidates only after success.  invalidateVin(vin) runs
\* when the POST of a command for vin has returned successfully and at no other
\* time: the invalidations run for a vehicle are its successful POSTs, less
\* those whose sendCommand has not resumed yet.  A command that fails for good
\* ends with the store exactly as it was and no invalidation, and a read of an
\* entry stored before it is served that entry.
C32_InvalidateOnlyAfterSuccess ==
    [][ /\ \A v \in Vins :
               inv'[v] + Cardinality({ c \in 1..Len(cmds') :
                                         cmds'[c].vin = v /\ cmds'[c].phase = "ok" })
                   = postOk'[v]
        /\ \A c \in 1..Len(cmds) :
               (cmds[c].phase # "done" /\ cmds'[c].phase = "done") =>
                   IF cmds[c].phase = "ok"
                   THEN /\ cmds[c].out = 200
                        /\ cache' = invalidateVin(cache, cmds[c].vin)
                        /\ inv'[cmds[c].vin] = inv[cmds[c].vin] + 1
                   ELSE /\ cmds[c].phase = "http"
                        /\ cache' = cache
                        /\ inv' = inv
        /\ inv' # inv => \E c \in 1..Len(cmds) : cmds[c].phase = "ok" /\ cmds'[c].phase = "done"
        /\ \A req \in Requests :
               (Read(req) /\ Live(cache, KeyOf(req), now)) =>
                   /\ ev'.via = "hit"
                   /\ ev'.value = MapGet(cache, KeyOf(req)).value
      ]_vars

\* a read of the commanded vehicle is served its entry after the command has
\* failed for good
C32_Witness ==
    /\ ev.type = "read"
    /\ ev.via = "hit"
    /\ ev.req.vin = V1
    /\ Len(cmds) = 1
    /\ cmds[1] = Done(V1)
    /\ postOk[V1] = 0
    /\ inv[V1] = 0

\* C33: commands are retried like reads.  One sendCommand call issues its POST
\* at most 3 times; it issues it again only after the POST has failed with
\* status 429 or >= 500 (and the backoff delay has passed), and once a POST has
\* returned successfully, or the call has ended, it issues no other.
C33_CommandRetries ==
    [][ \A c \in 1..Len(cmds) :
            /\ cmds'[c].phase # "done" => cmds'[c].calls <= 3
            /\ (cmds[c].phase # "done" /\ cmds'[c].phase # "done"
                 /\ cmds'[c].calls # cmds[c].calls) =>
                    /\ cmds'[c].calls = cmds[c].calls + 1
                    /\ cmds[c].phase = "backoff"
                    /\ cmds[c].out = 429 \/ cmds[c].out >= 500
                    /\ now >= cmds[c].due
                    /\ cmds'[c].phase = "http"
            /\ cmds[c].phase = "ok" => cmds'[c].phase \in {"ok", "done"}
            /\ cmds[c].phase = "done" => cmds'[c] = cmds[c]
      ]_vars

\* the third POST of a command has returned successfully, after two failures
\* and the two backoff delays
C33_Witness ==
    \E c \in 1..Len(cmds) :
        /\ cmds[c].phase = "ok"
        /\ cmds[c].calls = 3
        /\ nfails >= 2
        /\ now >= 1500

(* Cache hits *)

C35_InvalidationKeepsInFlight ==
    [][ /\ \A c \in 1..Len(cmds) :
               Invalidate(c) =>
                   /\ inFlight' = inFlight
                   /\ fetches' = fetches
                   /\ waiting' = waiting
        /\ \A req \in Requests :
               (/\ Read(req)
                /\ ~Live(cache, KeyOf(req), now)
                /\ \E e \in inFlight : e[1] = KeyOf(req)) =>
                   /\ ev'.via = "join"
                   /\ <<KeyOf(req), ev'.p>> \in inFlight
                   /\ fetches' = fetches
        /\ \A f \in fetches : \A r \in Randoms :
               HttpOk(f, r) =>
                   /\ MapHas(cache', f.key)
                   /\ MapGet(cache', f.key).value = ValueOf(f)
      ]_vars

\* a fetch that was in flight when its vehicle was invalidated has stored its
\* result, and a read that arrived after the invalidation had joined it
C35_Witness ==
    /\ ev.type = "store"
    /\ MapHas(cache, ev.key)
    /\ \E w1 \in waiting, w2 \in waiting :
           /\ w1.p = w2.p
           /\ w1.p[1] = ev.key
           /\ w1.inv = 0
           /\ w2.inv = 1

(* Retries and coalesced callers *)

\* C36: retries are shared by coalesced callers.  However many callers wait
\* for the fetch of a key, there is one fetch for the key, it has made at most
\* 3 upstream calls, one more than it has seen fail at most, and a caller that
\* joins it, also during a backoff delay, makes no call and leaves the fetch
\* as it is.
C36_RetriesShared ==
    [][ /\ \A f \in fetches' :
               /\ f.calls <= 3
               /\ f.calls <= f.attempt + 1
               /\ \A g \in fetches' : g.key = f.key => g = f
        /\ \A req \in Requests :
               (/\ Read(req)
                /\ ~Live(cache, KeyOf(req), now)
                /\ \E f \in fetches : f.key = KeyOf(req)) =>
                   /\ fetches' = fetches
                   /\ Cardinality(waiting') = Cardinality(waiting) + 1
      ]_vars

\* two callers wait for one fetch, which has failed twice and has made its
\* third call
C36_Witness ==
    \E f \in fetches :
        /\ f.calls = 3
        /\ f.phase = "http"
        /\ \E w \in waiting : w.p = f.p /\ w.n = 2
        /\ nreads = 2

(* Liveness *)

\* C37: provided every upstream HTTP call settles and the timers fire, every
\* read that waits for a fetch gets its outcome, every sendCommand call ends,
\* and in the end the in-flight map is empty and stays so: as the calls issued
\* are finitely many, from some time on no read waits, no fetch and no command
\* is under way and the in-flight map is empty.
C37_Liveness ==
    <>[](/\ waiting = {}
         /\ \A c \in 1..Len(cmds) : cmds[c].phase = "done"
         /\ inFlight = {}
         /\ fetches = {})

\* a read waits for a fetch in its second backoff delay while the command
\* waits in a backoff delay too
C37_Witness ==
    /\ \E f \in fetches :
           /\ f.phase = "backoff"
           /\ f.attempt = 2
           /\ \E w \in waiting : w.p = f.p
    /\ Len(cmds) = 1
    /\ cmds[1].phase = "backoff"

(* The entry just stored *)

\* C38: a freshly stored entry survives its own pruning pass.  With
\* maxCacheSize >= 1, right after a successful fetch has stored its result
\* under key K the store holds an entry for K that is live and was touched
\* now, whichever entries the pruning pass has dropped or evicted.
C38_FreshEntrySurvives ==
    (ev.type = "store" /\ maxCacheSize >= 1) =>
        /\ Live(cache, ev.key, now)
        /\ MapGet(cache, ev.key).touched = now
        /\ ev.key \notin ev.evicted

\* a store has evicted an entry that was touched in the same millisecond as
\* the entry just stored, which is in the store
C38_Witness ==
    /\ ev.type = "store"
    /\ maxCacheSize >= 1
    /\ now = 0
    /\ ev.evicted # {}
    /\ Live(cache, ev.key, now)

(* The attempts of ErrorHandler.withRetry *)

StatusOf(descriptor) ==
    IF "status" \in DOMAIN descriptor THEN descriptor.status ELSE 0

\* C40: the tool layer preserves the classification of a client failure.  The
\* descriptor that fetch_vehicle_state returns has the message, the status and
\* the retriable flag of the descriptor that client.getVehicleState rejected with.
C40_ClassificationPreserved ==
    ev.type = "fetch_vehicle_state" =>
        /\ ev.payload.message = ev.rejected.message
        /\ StatusOf(ev.payload) = StatusOf(ev.rejected)
        /\ ev.payload.retriable = ev.rejected.retriable

====
